---- MODULE Spec2Model ----
(***************************************************************************)
(* Verification model of WinDevicesLib: the USB descriptor parser, the     *)
(* kernel transport (DeviceCommunication), the hub model (UsbHub) and the  *)
(* topology orchestrator (DevicesManager).                                 *)
(*                                                                         *)
(* The module holds three state machines over one pool of variables:       *)
(*   SpecDesc      - descriptor-chain walks (UsbDescriptorParser and the   *)
(*                   walks inside UsbHub::FillConfigDescriptor)            *)
(*   SpecTransport - DeviceCommunication port enumeration and              *)
(*                   UsbHub::PopulateInfo                                  *)
(*   SpecOrch      - DevicesManager::Impl::EnumerateUsbDevices             *)
(* Each specification keeps the variables of the other two constant.       *)
(***************************************************************************)
EXTENDS Integers, Sequences, FiniteSets, TLC

VARIABLES
    \* ---- descriptor walks ----
    fn,        \* function under execution
    mem,       \* bytes starting at the configuration descriptor
    dev,       \* USB_DEVICE_DESCRIPTOR handed to the function
    wpc,       \* position inside the function
    cursor,    \* commonDesc, as an offset from the configuration descriptor
    iters,     \* iterations of the current while loop
    maxRead,   \* highest offset read from the buffer so far (-1: none)
    optClass,  \* std::optional<UCHAR> interface class (NoClass: nullopt)
    flag,      \* boolean result
    count,     \* GetInterfaceCount accumulator
    languageIDs, \* GetAllStringDescriptors: the language ids it indexes with [0]
    requests,  \* GetAllStringDescriptors: the string requests sent to the device
    fetched,   \* GetAllStringDescriptors: the strings assigned so far, by field
    \* ---- transport and hub population ----
    op,            \* operation called: EnumeratePorts, EnumeratePortsConnectionInfo, PopulateInfo
    tpc,           \* position inside the operation
    handleValid,   \* _hFile holds an open handle
    numberOfPorts, \* the numberOfPorts argument / UsbHub::_numberOfPorts
    portNumber,    \* loop variable of the running enumeration
    portProps,     \* std::map<size_t, HubPortInfo>
    connInfo,      \* std::map<size_t, HubConnectionInfo>
    entryMaps,     \* the two maps as they were when the operation was called
    kernelAsked,        \* kernel requests issued so far
    err,           \* exception leaving the operation, NoError while none
    answer,        \* what the kernel answered for the port processed last
    hubEx,         \* HubNodeInfoEx / HubNodeCapabilitiesEx as PopulateInfo received them
    calls,         \* DeviceCommunication calls made so far, each with its port count
    \* ---- topology orchestrator ----
    opc,           \* position inside EnumerateUsbDevices
    controller,    \* index of the host controller the for loop is at
    stack,         \* call stack of EnumeratePortsFromRootHub, innermost frame last
    devicesList,   \* DevicesManager::Impl::_devicesList
    oerr,          \* exception leaving EnumerateUsbDevices, NoError while none
    allDevices,    \* registry records of every present USB device
    deviceStrings, \* strings the attached device model answers string requests with
    \* ---- concurrent enumerations ----
    runs,          \* per thread: position, port at hand, _devicesList of its DevicesManager
    wcout,         \* std::wcout: the insertions made so far, each with its thread
    attached,      \* the devices on the root hub's ports, as every thread finds them
    \* ---- C API ----
    wrapper,       \* the DeviceManagerWrapper behind the handle, NoWrapper while none
    call,          \* the last C API call: function, arguments, result
    output         \* the caller's WD_DEVICE_INFO / count output

descVars == <<fn, mem, dev, wpc, cursor, iters, maxRead, optClass, flag, count,
              languageIDs, requests, fetched>>

transVars == <<op, tpc, handleValid, numberOfPorts, portNumber, portProps, connInfo,
               entryMaps, kernelAsked, err, answer, hubEx, calls>>

orchVars == <<opc, controller, stack, devicesList, oerr, allDevices, deviceStrings>>

concVars == <<runs, wcout, attached>>

apiVars == <<wrapper, call, output>>

vars == <<descVars, transVars, orchVars, concVars, apiVars>>

\* ------------------------------------------------------------------------
\* Layout constants of the USB descriptor structures
\* ------------------------------------------------------------------------
SizeofCommonDescriptor == 2
SizeofConfigurationDescriptor == 9
SizeofInterfaceDescriptor == 9
SizeofInterfaceDescriptor2 == 11
SizeofDeviceDescriptor == 18
USB_DEVICE_DESCRIPTOR_TYPE == 1
USB_CONFIGURATION_DESCRIPTOR_TYPE == 2
USB_INTERFACE_DESCRIPTOR_TYPE == 4
USB_OTHER_SPEED_CONFIGURATION_DESCRIPTOR_TYPE == 7
MinBcdUsb == 256
OffInterfaceClass == 5
OffIInterface == 8
OffIConfiguration == 6
NoClass == -1

\* ------------------------------------------------------------------------
\* Bounds of the descriptor model
\* ------------------------------------------------------------------------
MaxDescs == 2

Max(a, b) == IF a >= b THEN a ELSE b

\* ------------------------------------------------------------------------
\* Input buffers: a 9-byte configuration header followed by up to MaxDescs
\* sub-descriptors taken from a library of well-formed and malformed ones.
\* ------------------------------------------------------------------------
ConfigHeader(bLength, bType, wTotal, iConf) ==
    <<bLength, bType, wTotal % 256, wTotal \div 256, 1, 1, iConf, 128, 50>>

InterfaceDesc(cls, iInterface) == <<9, 4, 0, 0, 0, cls, 0, 0, iInterface>>

ChunkLib ==
    { InterfaceDesc(3, 0),           \* interface, no string
      InterfaceDesc(8, 1),           \* interface with a string index
      <<2, 4>>,                      \* interface tag, declared length 2
      <<0, 5, 0>>,                   \* declared length 0
      <<7, 5, 0, 0, 0, 0, 0>>,       \* endpoint
      <<2, 2>>,                      \* configuration tag, declared length 2
      <<9, 2, 0, 0, 0, 0, 1, 0, 0>>, \* nested configuration with a string
      <<9, 5>> }                     \* declared length overruns the bytes

RECURSIVE TailsOf(_)
TailsOf(n) ==
    IF n = 0 THEN { <<>> }
    ELSE LET shorter == TailsOf(n - 1)
         IN  shorter \cup { t \o c : t \in shorter, c \in ChunkLib }

HeaderLengths == {0, 2, 9, 11}
HeaderTypes == {2, 4}
OobBytes == {0, 3}

ConfigBuffers ==
    { ConfigHeader(bl, ty, tot, ic) \o tail :
        bl \in HeaderLengths, ty \in HeaderTypes, ic \in 0..1,
        tail \in TailsOf(MaxDescs),
        tot \in {8, 9} \cup {9 + k : k \in 0..(MaxDescs * 9)} }

\* the buffers whose declared total length is the fetched length, one byte
\* short of it (truncated), or below the header size
WellSizedBuffers ==
    { b \in ConfigBuffers :
        LET tot == b[3] + 256 * b[4]
        IN  tot \in {8, Len(b) - 1, Len(b)} }

DeviceDesc(bLength, bType, bcd, cls, iM, iP, iS) ==
    [bLength |-> bLength, bDescriptorType |-> bType, bcdUSB |-> bcd,
     bDeviceClass |-> cls, iManufacturer |-> iM, iProduct |-> iP,
     iSerialNumber |-> iS]

DefaultDeviceDesc == DeviceDesc(18, 1, 512, 0, 0, 0, 0)

\* the fields of the device descriptor GetAllStringDescriptors takes string
\* indices from, in the order it goes through them
StringFields == <<"bDeviceClass", "iManufacturer", "iProduct", "iSerialNumber">>

\* the four local wstrings, each by the string index whose text it holds
\* (0: still empty)
NoneFetched == [f \in {"bDeviceClass", "iManufacturer", "iProduct", "iSerialNumber"} |-> 0]

\* USHORT defaultLanguageID = 0x0409
DefaultLanguageID == 1033

DeviceDescs ==
    { DeviceDesc(bl, ty, bcd, 0, iM, 0, iS) :
        bl \in {0, 18}, ty \in {1, 2}, bcd \in {255, 256, 512},
        iM \in {0, 1}, iS \in {0, 3} }

\* ------------------------------------------------------------------------
\* Reading the buffer.  A read at or past the fetched bytes is undefined
\* behaviour: it yields an arbitrary byte, supplied by the caller as junk.
\* ------------------------------------------------------------------------
Rd(m, off, junk) == IF off < Len(m) THEN m[off + 1] ELSE junk

bLengthOf(m) == m[1]
bDescriptorTypeOf(m) == m[2]
wTotalLengthOf(m) == m[3] + 256 * m[4]
iConfigurationOf(m) == m[7]

ValidateDeviceDescriptor(d) ==
    IF d.bLength # SizeofDeviceDescriptor THEN FALSE
    ELSE IF d.bDescriptorType # USB_DEVICE_DESCRIPTOR_TYPE THEN FALSE
    ELSE IF d.bcdUSB < MinBcdUsb THEN FALSE
    ELSE TRUE

ValidateConfigurationDescriptor(m) ==
    IF bLengthOf(m) < SizeofConfigurationDescriptor THEN FALSE
    ELSE IF bDescriptorTypeOf(m) # USB_CONFIGURATION_DESCRIPTOR_TYPE THEN FALSE
    ELSE IF wTotalLengthOf(m) < SizeofConfigurationDescriptor THEN FALSE
    ELSE TRUE

\* highest header offset ValidateConfigurationDescriptor reads
ValidateReads(m) ==
    IF bLengthOf(m) < SizeofConfigurationDescriptor THEN 0
    ELSE IF bDescriptorTypeOf(m) # USB_CONFIGURATION_DESCRIPTOR_TYPE THEN 1
    ELSE 3

IsDescriptorInBoundsNoZeroCheck(m, cur, descEnd, junk) ==
    IF cur + SizeofCommonDescriptor > descEnd THEN FALSE
    ELSE IF cur + Rd(m, cur, junk) > descEnd THEN FALSE
    ELSE TRUE

IsDescriptorInBounds(m, cur, descEnd, junk) ==
    IF cur + SizeofCommonDescriptor > descEnd THEN FALSE
    ELSE IF cur + Rd(m, cur, junk) > descEnd THEN FALSE
    ELSE IF Rd(m, cur, junk) = 0 THEN FALSE
    ELSE TRUE

\* highest offset IsDescriptorInBounds reads (the bLength byte), if any
BoundsReads(cur, descEnd) ==
    IF cur + SizeofCommonDescriptor > descEnd THEN -1 ELSE cur

ParserWalkers == {"ExtractInterfaceClass", "HasStringDescriptors", "GetInterfaceCount"}
ParserFns == ParserWalkers \cup {"ValidateConfigurationDescriptor", "ValidateDeviceDescriptor"}
HubFns == {"FillConfigDescriptor"}

\* a loop that has run IterCap times is not followed further
IterCap == 9 * (MaxDescs + 1) + 2

\* ------------------------------------------------------------------------
\* Transport (DeviceCommunication): constants, kernel answers, records
\* ------------------------------------------------------------------------
MaxPortsPerHub == 255
UsbLowSpeed == 0
UsbFullSpeed == 1
UsbHighSpeed == 2
UsbSuperSpeed == 3

\* Bounds of the transport model: ports of a hub that answer kernel queries
MaxPorts == 2

NoError == [type |-> "none", from |-> "none"]
Raise(type, from) == [type |-> type, from |-> from]

EmptyMap == <<>>

TryEmplace(m, k, v) ==
    IF k \in DOMAIN m THEN m
    ELSE [x \in (DOMAIN m) \cup {k} |-> IF x = k THEN v ELSE m[x]]

\* numberOfPorts arguments: none, what a hub of the model has, one past the ceiling
PortCountArgs == (0..MaxPorts) \cup {MaxPortsPerHub + 1}

\* the argument validation both enumerations start with
PortCountRejectedNoCeiling(n) == n = 0

PortCountRejected(n) == n = 0 \/ n > MaxPortsPerHub

\* HubPortInfo
DefaultHubPortInfo == [connectionIndex |-> 0, isFilled |-> FALSE]
FilledHubPortInfo(p) == [connectionIndex |-> p, isFilled |-> TRUE]

\* kernel outcomes of IOCTL_USB_GET_PORT_CONNECTOR_PROPERTIES for one port
PortProbeOutcomes == {"fail", "wrongSize", "ok"}
PortFetchOutcomes == {"fail", "short", "ok"}

\* HubConnectionInfo
DefaultHubConnectionInfo ==
    [connectionIndex |-> 0, connectionStatus |-> "NoDeviceConnected",
     speed |-> 0, deviceIsHub |-> FALSE, deviceAddress |-> 0,
     numberOfOpenPipes |-> 0, pipeList |-> 0, deviceDescriptor |-> 0,
     driverKeyName |-> ""]

\* contents of USB_NODE_CONNECTION_INFORMATION_EX the kernel may hand back
ExInfo(status, speed, isHub, addr, pipes, desc) ==
    [ConnectionStatus |-> status, Speed |-> speed, DeviceIsHub |-> isHub,
     DeviceAddress |-> addr, NumberOfOpenPipes |-> pipes, DeviceDescriptor |-> desc]

\* the output buffer when the kernel request returns FALSE
ExRejected == ExInfo("RequestRejected", 0, FALSE, 0, 0, 0)

ExAnswers ==
    { ExInfo("NoDeviceConnected", 0, FALSE, 0, 0, 0),
      ExInfo("NoDeviceConnected", UsbHighSpeed, FALSE, 5, 2, 1),
      ExInfo("DeviceConnected", UsbHighSpeed, FALSE, 1, 2, 1),
      ExInfo("DeviceConnected", UsbFullSpeed, TRUE, 3, 1, 2),
      ExInfo("DeviceFailedEnumeration", UsbFullSpeed, FALSE, 0, 0, 0) }

\* contents of the legacy USB_NODE_CONNECTION_INFORMATION
LegacyInfo(status, low, isHub, addr, pipes, desc) ==
    [ConnectionStatus |-> status, LowSpeed |-> low, DeviceIsHub |-> isHub,
     DeviceAddress |-> addr, NumberOfOpenPipes |-> pipes, DeviceDescriptor |-> desc]

LegacyRejected == LegacyInfo("RequestRejected", FALSE, FALSE, 0, 0, 0)

LegacyAnswers ==
    { LegacyInfo("NoDeviceConnected", FALSE, FALSE, 0, 0, 0),
      LegacyInfo("DeviceConnected", TRUE, FALSE, 4, 1, 1) }

\* the V2 query: rejected, answered without / with a SuperSpeed-or-higher flag
V2Answers == {"fail", "plain", "super"}

\* the driver-key query: rejected, answered with a too small length, answered
KeyAnswers == {"fail", "short", "ok"}
DriverKey(p) == "DriverKey"

\* the kernel's answers for the port the loop handled last
NoAnswer ==
    [of |-> "none", port |-> 0, probe |-> "none", alloc |-> FALSE, fetch |-> "none",
     v2 |-> "none", ex |-> FALSE, legacy |-> FALSE, keyAsked |-> FALSE, key |-> "none",
     learned |-> 0, wTotalLength |-> 0]

EnumerationOps == {"EnumeratePorts", "EnumeratePortsConnectionInfo"}

\* maps a caller may hand in: empty, or holding entries of an earlier use
StalePortProps == { EmptyMap, [k \in {1} |-> FilledHubPortInfo(1)] }
StaleConnInfo ==
    { EmptyMap,
      [k \in {9999} |-> [DefaultHubConnectionInfo EXCEPT !.connectionIndex = 9999]] }

DefaultHubEx == [isHubInfoExSupport |-> FALSE, hubIsRoot |-> FALSE,
                 infoExAnswer |-> "none", capsAnswer |-> "none"]

\* UsbDeviceDescriptorInfo: the strings GetAllStringDescriptors stored, the
\* product as the sequence of its words
StringInfo(manufacturer, product) == [manufacturer |-> manufacturer, product |-> product]

NoStrings == StringInfo("", <<>>)

TransIdle ==
    /\ op = "none"
    /\ tpc = "idle"
    /\ handleValid = TRUE
    /\ numberOfPorts = 0
    /\ portNumber = 0
    /\ portProps = EmptyMap
    /\ connInfo = EmptyMap
    /\ entryMaps = <<EmptyMap, EmptyMap>>
    /\ kernelAsked = FALSE
    /\ err = NoError
    /\ answer = NoAnswer
    /\ hubEx = DefaultHubEx
    /\ calls = <<>>

OrchIdle ==
    /\ opc = "idle"
    /\ controller = 0
    /\ stack = <<>>
    /\ devicesList = <<>>
    /\ oerr = NoError
    /\ allDevices = <<>>
    /\ deviceStrings = NoStrings

ConcIdle ==
    /\ runs = <<>>
    /\ wcout = <<>>
    /\ attached = <<>>

\* no DeviceManagerWrapper exists; no call was made
ApiIdle ==
    /\ wrapper = [live |-> FALSE, devices |-> <<>>, lastError |-> ""]
    /\ call = [fn |-> "none", handle |-> FALSE, out |-> FALSE, index |-> 0, count |-> 0,
               result |-> 0]
    /\ output = [written |-> FALSE, value |-> <<>>]

DescIdle ==
    /\ fn = "none"
    /\ mem = <<>>
    /\ dev = DefaultDeviceDesc
    /\ wpc = "idle"
    /\ cursor = 0
    /\ iters = 0
    /\ maxRead = -1
    /\ optClass = NoClass
    /\ flag = FALSE
    /\ count = 0
    /\ languageIDs = <<>>
    /\ requests = <<>>
    /\ fetched = NoneFetched

\* ------------------------------------------------------------------------
\* SpecDesc: initial states.  One function is called on one buffer.
\* ------------------------------------------------------------------------
DescStart(f, m, d) ==
    /\ fn = f
    /\ mem = m
    /\ dev = d
    /\ wpc = "call"
    /\ cursor = 0
    /\ iters = 0
    /\ maxRead = -1
    /\ optClass = NoClass
    /\ flag = FALSE
    /\ count = 0
    /\ languageIDs = <<>>
    /\ requests = <<>>
    /\ fetched = NoneFetched

InitDesc ==
    /\ TransIdle
    /\ OrchIdle
    /\ ConcIdle
    /\ ApiIdle
    /\ \/ \E f \in ParserWalkers \cup {"ValidateConfigurationDescriptor"},
             m \in WellSizedBuffers : DescStart(f, m, DefaultDeviceDesc)
       \/ \E d \in DeviceDescs :
             DescStart("ValidateDeviceDescriptor", ConfigHeader(9, 2, 9, 0), d)
       \/ \E m \in WellSizedBuffers,
             d \in {DefaultDeviceDesc, DeviceDesc(18, 1, 512, 0, 1, 2, 3)} :
             DescStart("FillConfigDescriptor", m, d)
       \/ \E cls \in {0, 255}, iM \in {0, 1}, iP \in {0, 2}, iS \in {0, 3} :
             DescStart("GetAllStringDescriptors", ConfigHeader(9, 2, 9, 0),
                       DeviceDesc(18, 1, 512, cls, iM, iP, iS))

Finish(withClass, withFlag, withCount, readUpTo) ==
    /\ wpc' = "done"
    /\ optClass' = withClass
    /\ flag' = withFlag
    /\ count' = withCount
    /\ maxRead' = Max(maxRead, readUpTo)
    /\ UNCHANGED <<fn, mem, dev, cursor, iters>>
    /\ UNCHANGED <<languageIDs, requests, fetched>>
    /\ UNCHANGED <<transVars, orchVars, concVars, apiVars>>

Advance(newCursor, withClass, withCount, readUpTo) ==
    /\ iters < IterCap
    /\ cursor' = newCursor
    /\ iters' = iters + 1
    /\ optClass' = withClass
    /\ count' = withCount
    /\ maxRead' = Max(maxRead, readUpTo)
    /\ UNCHANGED <<fn, mem, dev, wpc, flag>>
    /\ UNCHANGED <<languageIDs, requests, fetched>>
    /\ UNCHANGED <<transVars, orchVars, concVars, apiVars>>

\* ------------------------------------------------------------------------
\* UsbDescriptorParser
\* ------------------------------------------------------------------------

\* the value ExtractInterfaceClass returns for buffer m
RECURSIVE ExtractInterfaceClassFrom(_, _, _)
ExtractInterfaceClassFrom(m, cur, junk) ==
    IF ~IsDescriptorInBounds(m, cur, wTotalLengthOf(m), junk) THEN NoClass
    ELSE IF Rd(m, cur + 1, junk) = USB_INTERFACE_DESCRIPTOR_TYPE
    THEN Rd(m, cur + OffInterfaceClass, junk)
    ELSE ExtractInterfaceClassFrom(m, cur + Rd(m, cur, junk), junk)

ExtractInterfaceClass(m, junk) ==
    IF ~ValidateConfigurationDescriptor(m) THEN NoClass
    ELSE ExtractInterfaceClassFrom(m, bLengthOf(m), junk)

ValidateDeviceDescriptor_Call ==
    /\ fn = "ValidateDeviceDescriptor" /\ wpc = "call"
    /\ Finish(NoClass, ValidateDeviceDescriptor(dev), 0, -1)

ValidateConfigurationDescriptor_Call ==
    /\ fn = "ValidateConfigurationDescriptor" /\ wpc = "call"
    /\ Finish(NoClass, ValidateConfigurationDescriptor(mem), 0, ValidateReads(mem))

\* the common prologue of the three walkers: validate, then move past the
\* configuration descriptor
ParserWalk_Begin ==
    /\ fn \in ParserWalkers /\ wpc = "call"
    /\ IF ~ValidateConfigurationDescriptor(mem)
       THEN Finish(NoClass, FALSE, 0, ValidateReads(mem))
       ELSE /\ wpc' = "walk"
            /\ cursor' = bLengthOf(mem)
            /\ maxRead' = Max(maxRead, ValidateReads(mem))
            /\ UNCHANGED <<fn, mem, dev, iters, optClass, flag, count>>
            /\ UNCHANGED <<languageIDs, requests, fetched>>
    /\ UNCHANGED <<transVars, orchVars, concVars, apiVars>>

ExtractInterfaceClass_Step ==
    /\ fn = "ExtractInterfaceClass" /\ wpc = "walk"
    /\ \E junk \in OobBytes :
         IF ~IsDescriptorInBounds(mem, cursor, wTotalLengthOf(mem), junk)
         THEN Finish(NoClass, FALSE, 0, BoundsReads(cursor, wTotalLengthOf(mem)))
         ELSE IF Rd(mem, cursor + 1, junk) = USB_INTERFACE_DESCRIPTOR_TYPE
         THEN Finish(Rd(mem, cursor + OffInterfaceClass, junk), FALSE, 0,
                     cursor + OffInterfaceClass)
         ELSE Advance(cursor + Rd(mem, cursor, junk), NoClass, 0, cursor + 1)

HasStringDescriptors_Step ==
    /\ fn = "HasStringDescriptors" /\ wpc = "walk"
    /\ \E junk \in OobBytes :
         LET bLength == Rd(mem, cursor, junk)
             bType == Rd(mem, cursor + 1, junk)
         IN
         IF ~IsDescriptorInBounds(mem, cursor, wTotalLengthOf(mem), junk)
         THEN Finish(NoClass, FALSE, 0, BoundsReads(cursor, wTotalLengthOf(mem)))
         ELSE IF bType = USB_CONFIGURATION_DESCRIPTOR_TYPE
         THEN IF Rd(mem, cursor + OffIConfiguration, junk) # 0
              THEN Finish(NoClass, TRUE, 0, cursor + OffIConfiguration)
              ELSE Advance(cursor + bLength, NoClass, 0, cursor + OffIConfiguration)
         ELSE IF bType = USB_INTERFACE_DESCRIPTOR_TYPE
         THEN IF bLength # SizeofInterfaceDescriptor /\ bLength # SizeofInterfaceDescriptor2
              THEN Finish(NoClass, FALSE, 0, cursor + 1)
              ELSE IF Rd(mem, cursor + OffIInterface, junk) # 0
              THEN Finish(NoClass, TRUE, 0, cursor + OffIInterface)
              ELSE Advance(cursor + bLength, NoClass, 0, cursor + OffIInterface)
         ELSE Advance(cursor + bLength, NoClass, 0, cursor + 1)

GetInterfaceCount_Step ==
    /\ fn = "GetInterfaceCount" /\ wpc = "walk"
    /\ \E junk \in OobBytes :
         IF ~IsDescriptorInBounds(mem, cursor, wTotalLengthOf(mem), junk)
         THEN Finish(NoClass, FALSE, count, BoundsReads(cursor, wTotalLengthOf(mem)))
         ELSE Advance(cursor + Rd(mem, cursor, junk), NoClass,
                      IF Rd(mem, cursor + 1, junk) = USB_INTERFACE_DESCRIPTOR_TYPE
                      THEN count + 1 ELSE count,
                      cursor + 1)

\* ------------------------------------------------------------------------
\* UsbHub::FillConfigDescriptor and UsbHub::AreUsbDescriptorsCorrect
\* ------------------------------------------------------------------------
\* the loop condition both walks of UsbHub.cpp use
HubWalkCondition(m, cur, descEnd, junk) ==
    /\ cur + SizeofCommonDescriptor < descEnd
    /\ cur + Rd(m, cur, junk) <= descEnd

\* DeviceCommunication::GetConfigDescriptor hands out no buffer whose
\* wTotalLength is below the header size
ConfigDescriptorAvailable(m) == wTotalLengthOf(m) >= SizeofConfigurationDescriptor

Goto(label, newCursor, withClass, withFlag, readUpTo) ==
    /\ wpc' = label
    /\ cursor' = newCursor
    /\ iters' = 0
    /\ optClass' = withClass
    /\ flag' = withFlag
    /\ maxRead' = Max(maxRead, readUpTo)
    /\ UNCHANGED <<fn, mem, dev, count>>
    /\ UNCHANGED <<languageIDs, requests, fetched>>
    /\ UNCHANGED <<transVars, orchVars, concVars, apiVars>>

FillConfigDescriptor_Begin ==
    /\ fn = "FillConfigDescriptor" /\ wpc = "call"
    /\ IF ~ConfigDescriptorAvailable(mem)
       THEN Finish(NoClass, FALSE, 0, 3)
       ELSE Goto("search", bLengthOf(mem), NoClass, FALSE, 3)

FillConfigDescriptor_Search ==
    /\ fn = "FillConfigDescriptor" /\ wpc = "search"
    /\ \E junk \in OobBytes :
         IF ~HubWalkCondition(mem, cursor, wTotalLengthOf(mem), junk)
         THEN Goto("check", cursor, optClass, FALSE, maxRead)
         ELSE IF Rd(mem, cursor + 1, junk) = USB_INTERFACE_DESCRIPTOR_TYPE
         THEN Goto("check", cursor, Rd(mem, cursor + OffInterfaceClass, junk), FALSE,
                   cursor + OffInterfaceClass)
         ELSE Advance(cursor + Rd(mem, cursor, junk), optClass, count, cursor + 1)

AreUsbDescriptorsCorrect_Begin ==
    /\ fn = "FillConfigDescriptor" /\ wpc = "check"
    /\ IF dev.iManufacturer # 0 \/ dev.iProduct # 0 \/ dev.iSerialNumber # 0
       THEN Goto("store", cursor, optClass, TRUE, maxRead)
       ELSE Goto("chain", 0, optClass, FALSE, maxRead)

\* the switch left through the break behind it, as the walk this one was
\* taken from is described
SwitchBreaks(newCursor, readUpTo) ==
    Goto("store", cursor, optClass, FALSE, readUpTo)

\* every branch of the switch that does not return ends in `continue`
SwitchContinues(newCursor, readUpTo) ==
    Advance(newCursor, optClass, count, readUpTo)

AreUsbDescriptorsCorrect_Step ==
    /\ fn = "FillConfigDescriptor" /\ wpc = "chain"
    /\ \E junk \in OobBytes :
         LET bLength == Rd(mem, cursor, junk)
             bType == Rd(mem, cursor + 1, junk)
         IN
         IF ~HubWalkCondition(mem, cursor, wTotalLengthOf(mem), junk)
         THEN Goto("store", cursor, optClass, FALSE, maxRead)
         ELSE IF bType \in {USB_CONFIGURATION_DESCRIPTOR_TYPE,
                            USB_OTHER_SPEED_CONFIGURATION_DESCRIPTOR_TYPE}
         THEN IF bLength # SizeofConfigurationDescriptor
              THEN Goto("store", cursor, optClass, FALSE, cursor + 1)
              ELSE IF Rd(mem, cursor + OffIConfiguration, junk) # 0
              THEN Goto("store", cursor, optClass, TRUE, cursor + OffIConfiguration)
              ELSE SwitchContinues(cursor + bLength, cursor + OffIConfiguration)
         ELSE IF bType = USB_INTERFACE_DESCRIPTOR_TYPE
         THEN IF bLength # SizeofInterfaceDescriptor /\ bLength # SizeofInterfaceDescriptor2
              THEN Goto("store", cursor, optClass, FALSE, cursor + 1)
              ELSE IF Rd(mem, cursor + OffIInterface, junk) # 0
              THEN Goto("store", cursor, optClass, TRUE, cursor + OffIInterface)
              ELSE SwitchContinues(cursor + bLength, cursor + OffIInterface)
         ELSE SwitchContinues(cursor + bLength, cursor + 1)

\* the descriptor and the collected info are emplaced under the connection index
FillConfigDescriptor_Store ==
    /\ fn = "FillConfigDescriptor" /\ wpc = "store"
    /\ wpc' = "done"
    /\ count' = 1
    /\ UNCHANGED <<fn, mem, dev, cursor, iters, maxRead, optClass, flag>>
    /\ UNCHANGED <<languageIDs, requests, fetched>>
    /\ UNCHANGED <<transVars, orchVars, concVars, apiVars>>

\* ------------------------------------------------------------------------
\* UsbHub::GetAllStringDescriptors.  GetStringDescriptor hands back a node
\* ("string"), nullptr ("none"), or leaves with an exception ("throws").
\* ------------------------------------------------------------------------
GetAllStringDescriptors_Languages ==
    /\ fn = "GetAllStringDescriptors" /\ wpc = "call"
    /\ \E result \in {"none", "string", "throws"},
          ids \in { <<>>, <<DefaultLanguageID>>, <<1031>>, <<1031, DefaultLanguageID>> } :
         /\ result # "string" => ids = <<>>
         /\ requests' = Append(requests, [index |-> 0, languageId |-> 0,
                                          available |-> result = "string"])
         /\ IF result = "throws"
            THEN wpc' = "threw" /\ UNCHANGED languageIDs
            ELSE /\ wpc' = StringFields[1]
                 /\ languageIDs' = IF result = "none" THEN <<DefaultLanguageID>> ELSE ids
    /\ UNCHANGED <<fn, mem, dev, cursor, iters, maxRead, optClass, flag, count, fetched>>
    /\ UNCHANGED <<transVars, orchVars, concVars, apiVars>>

\* one of the four `if (DeviceDesc->field)` blocks
GetAllStringDescriptors_Fetch ==
    /\ fn = "GetAllStringDescriptors"
    /\ \E k \in 1..Len(StringFields) :
         /\ wpc = StringFields[k]
         /\ LET index == dev[wpc]
                next == IF k = Len(StringFields) THEN "set" ELSE StringFields[k + 1]
                \* languageIDs[0]; with a list of no ids this is bString[0] of a
                \* node that was zeroed and received two bytes only
                languageId == IF languageIDs = <<>> THEN 0 ELSE languageIDs[1]
            IN  IF index = 0
                THEN wpc' = next /\ UNCHANGED <<requests, fetched>>
                ELSE \E result \in {"none", "string", "throws"} :
                       /\ requests' = Append(requests,
                               [index |-> index, languageId |-> languageId,
                                available |-> result = "string"])
                       /\ wpc' = IF result = "throws" THEN "threw" ELSE next
                       /\ fetched' = IF result = "string"
                                     THEN [fetched EXCEPT ![wpc] = index]
                                     ELSE fetched
    /\ UNCHANGED <<fn, mem, dev, cursor, iters, maxRead, optClass, flag, count, languageIDs>>
    /\ UNCHANGED <<transVars, orchVars, concVars, apiVars>>

\* DeviceInfo->SetUsbDeviceInfo(iManufacturer, iProduct, iSerialNumber); return true
GetAllStringDescriptors_Set ==
    /\ fn = "GetAllStringDescriptors" /\ wpc = "set"
    /\ wpc' = "done"
    /\ flag' = TRUE
    /\ UNCHANGED <<fn, mem, dev, cursor, iters, maxRead, optClass, count>>
    /\ UNCHANGED <<languageIDs, requests, fetched>>
    /\ UNCHANGED <<transVars, orchVars, concVars, apiVars>>

NextDesc ==
    \/ ValidateDeviceDescriptor_Call
    \/ ValidateConfigurationDescriptor_Call
    \/ ParserWalk_Begin
    \/ ExtractInterfaceClass_Step
    \/ HasStringDescriptors_Step
    \/ GetInterfaceCount_Step
    \/ FillConfigDescriptor_Begin
    \/ FillConfigDescriptor_Search
    \/ AreUsbDescriptorsCorrect_Begin
    \/ AreUsbDescriptorsCorrect_Step
    \/ FillConfigDescriptor_Store
    \/ GetAllStringDescriptors_Languages
    \/ GetAllStringDescriptors_Fetch
    \/ GetAllStringDescriptors_Set

SpecDesc == InitDesc /\ [][NextDesc]_vars

\* ------------------------------------------------------------------------
\* DeviceCommunication::EnumeratePorts
\* ------------------------------------------------------------------------
\* the exception leaves the operation; the caller says what becomes of `calls`
Throw(type, from) ==
    /\ tpc' = "threw"
    /\ err' = Raise(type, from)
    /\ UNCHANGED <<op, handleValid, numberOfPorts, portNumber, portProps, connInfo,
                   entryMaps, kernelAsked, answer, hubEx>>
    /\ UNCHANGED <<descVars, orchVars, concVars, apiVars>>

EnumeratePorts_Enter ==
    /\ tpc = "ports_enter"
    /\ calls' = Append(calls, <<"EnumeratePorts", numberOfPorts>>)
    /\ IF PortCountRejected(numberOfPorts)
       THEN Throw("InvalidDeviceArgumentException", "EnumeratePorts")
       ELSE IF ~handleValid
       THEN Throw("InvalidDeviceHandleException", "EnumeratePorts")
       ELSE /\ tpc' = "ports_loop"
            /\ portNumber' = 1
            /\ UNCHANGED <<op, handleValid, numberOfPorts, portProps, connInfo,
                           entryMaps, kernelAsked, err, answer, hubEx>>
            /\ UNCHANGED <<descVars, orchVars, concVars, apiVars>>

\* queryPortConnectorProps: the std::optional<HubPortInfo> for one port
QueryPortConnectorPropsOmitUnfilled(p, probe, alloc, fetch) ==
    IF probe # "ok" THEN <<>>
    ELSE IF ~alloc THEN <<>>
    ELSE IF fetch # "ok" THEN <<>>
    ELSE <<FilledHubPortInfo(p)>>

QueryPortConnectorProps(p, probe, alloc, fetch) ==
    IF probe # "ok" THEN <<>>
    ELSE IF ~alloc THEN <<>>
    ELSE IF fetch # "ok" THEN <<DefaultHubPortInfo>>
    ELSE <<FilledHubPortInfo(p)>>

\* one pass of the for loop, or its exit
EnumeratePorts_Loop ==
    /\ tpc = "ports_loop"
    /\ IF portNumber > numberOfPorts
       THEN /\ tpc' = IF op = "PopulateInfo" THEN "conn_enter" ELSE "returned"
            /\ UNCHANGED <<op, handleValid, numberOfPorts, portNumber, portProps,
                           connInfo, entryMaps, kernelAsked, err, answer, hubEx, calls>>
       ELSE \E probe \in PortProbeOutcomes, alloc \in BOOLEAN, fetch \in PortFetchOutcomes :
              LET portInfo == QueryPortConnectorProps(portNumber, probe, alloc, fetch)
              IN  /\ probe # "ok" => (alloc /\ fetch = "ok")
                  /\ ~alloc => fetch = "ok"
                  /\ portProps' = IF portInfo = <<>> THEN portProps
                                  ELSE TryEmplace(portProps, portNumber, portInfo[1])
                  /\ kernelAsked' = TRUE
                  /\ answer' = [NoAnswer EXCEPT !.of = "ports", !.port = portNumber,
                                   !.probe = probe, !.alloc = alloc, !.fetch = fetch]
                  /\ portNumber' = portNumber + 1
                  /\ UNCHANGED <<op, tpc, handleValid, numberOfPorts, connInfo,
                                 entryMaps, err, hubEx, calls>>
    /\ UNCHANGED <<descVars, orchVars, concVars, apiVars>>

\* ------------------------------------------------------------------------
\* DeviceCommunication::EnumeratePortsConnectionInfo
\* ------------------------------------------------------------------------
EnumeratePortsConnectionInfo_Enter ==
    /\ tpc = "conn_enter"
    /\ calls' = Append(calls, <<"EnumeratePortsConnectionInfo", numberOfPorts>>)
    /\ IF PortCountRejected(numberOfPorts)
       THEN Throw("InvalidDeviceArgumentException", "EnumeratePortsConnectionInfo")
       ELSE IF ~handleValid
       THEN Throw("InvalidDeviceHandleException", "EnumeratePortsConnectionInfo")
       ELSE /\ tpc' = "conn_loop"
            /\ portNumber' = 1
            /\ connInfo' = EmptyMap
            /\ UNCHANGED <<op, handleValid, numberOfPorts, portProps,
                           entryMaps, kernelAsked, err, answer, hubEx>>
            /\ UNCHANGED <<descVars, orchVars, concVars, apiVars>>

\* populateConnectionInfo without the assignment of _connectionIndex
PopulateConnectionInfoIndexUnset(connEx, p, v2) ==
    [connectionIndex |-> 0,
     connectionStatus |-> connEx.ConnectionStatus,
     speed |-> IF connEx.Speed = UsbHighSpeed /\ v2 = "super"
               THEN UsbSuperSpeed ELSE connEx.Speed,
     deviceIsHub |-> connEx.DeviceIsHub,
     deviceAddress |-> connEx.DeviceAddress,
     numberOfOpenPipes |-> connEx.NumberOfOpenPipes,
     pipeList |-> connEx.NumberOfOpenPipes,
     deviceDescriptor |-> connEx.DeviceDescriptor,
     driverKeyName |-> ""]

\* populateConnectionInfo taking the V2 flag alone as the speed
PopulateConnectionInfoV2Decides(connEx, p, v2) ==
    [connectionIndex |-> p,
     connectionStatus |-> connEx.ConnectionStatus,
     speed |-> IF v2 = "super" THEN UsbSuperSpeed ELSE connEx.Speed,
     deviceIsHub |-> connEx.DeviceIsHub,
     deviceAddress |-> connEx.DeviceAddress,
     numberOfOpenPipes |-> connEx.NumberOfOpenPipes,
     pipeList |-> connEx.NumberOfOpenPipes,
     deviceDescriptor |-> connEx.DeviceDescriptor,
     driverKeyName |-> ""]

\* populateConnectionInfo: the entry built from the extended query
PopulateConnectionInfo(connEx, p, v2) ==
    [connectionIndex |-> p,
     connectionStatus |-> connEx.ConnectionStatus,
     speed |-> IF connEx.Speed = UsbHighSpeed /\ v2 = "super"
               THEN UsbSuperSpeed ELSE connEx.Speed,
     deviceIsHub |-> connEx.DeviceIsHub,
     deviceAddress |-> connEx.DeviceAddress,
     numberOfOpenPipes |-> connEx.NumberOfOpenPipes,
     pipeList |-> connEx.NumberOfOpenPipes,
     deviceDescriptor |-> connEx.DeviceDescriptor,
     driverKeyName |-> ""]

\* queryLegacyConnectionInfo: the entry built from the legacy query
QueryLegacyConnectionInfo(conn, p) ==
    [connectionIndex |-> p,
     connectionStatus |-> conn.ConnectionStatus,
     speed |-> IF conn.LowSpeed THEN UsbLowSpeed ELSE UsbFullSpeed,
     deviceIsHub |-> conn.DeviceIsHub,
     deviceAddress |-> conn.DeviceAddress,
     numberOfOpenPipes |-> conn.NumberOfOpenPipes,
     pipeList |-> conn.NumberOfOpenPipes,
     deviceDescriptor |-> conn.DeviceDescriptor,
     driverKeyName |-> ""]

\* the driver key assigned whatever GetDriverKeyName did
WithDriverKeyUnchecked(info, p, key) == [info EXCEPT !.driverKeyName = DriverKey(p)]

\* the try/catch around GetDriverKeyName
WithDriverKey(info, p, key) ==
    IF key = "ok" THEN [info EXCEPT !.driverKeyName = DriverKey(p)] ELSE info

\* one pass of the for loop, or its exit
EnumeratePortsConnectionInfo_Loop ==
    /\ tpc = "conn_loop"
    /\ IF portNumber > numberOfPorts
       THEN /\ tpc' = "returned"
            /\ UNCHANGED <<op, handleValid, numberOfPorts, portNumber, portProps,
                           connInfo, entryMaps, kernelAsked, err, answer, hubEx, calls>>
       ELSE
         \* THROW_IF_NULL_ALLOC of the query buffers
         \/ Throw("ResultException", "EnumeratePortsConnectionInfo") /\ UNCHANGED calls
         \/ \E v2 \in V2Answers, ex \in {ExRejected} \cup ExAnswers,
               legacy \in {LegacyRejected} \cup LegacyAnswers, key \in KeyAnswers :
              LET exResult == ex # ExRejected
                  legacyResult == legacy # LegacyRejected
                  connectionInfo ==
                      IF exResult THEN PopulateConnectionInfo(ex, portNumber, v2)
                      ELSE QueryLegacyConnectionInfo(legacy, portNumber)
                  deviceConnected ==
                      IF exResult THEN ex.ConnectionStatus # "NoDeviceConnected"
                      ELSE legacy.ConnectionStatus # "NoDeviceConnected"
                  stored == exResult \/ legacyResult
                  keyAsked == stored /\ deviceConnected
              IN  \* answers of queries that are not issued are fixed
                  /\ exResult => legacy = LegacyRejected
                  /\ ~keyAsked => key = "fail"
                  /\ connInfo' =
                       IF ~stored THEN connInfo
                       ELSE TryEmplace(connInfo, portNumber,
                                IF keyAsked
                                THEN WithDriverKey(connectionInfo, portNumber, key)
                                ELSE connectionInfo)
                  /\ kernelAsked' = TRUE
                  /\ answer' = [NoAnswer EXCEPT !.of = "conn", !.port = portNumber,
                                   !.v2 = v2, !.ex = exResult, !.legacy = legacyResult,
                                   !.keyAsked = keyAsked, !.key = key]
                  /\ portNumber' = portNumber + 1
                  /\ UNCHANGED <<op, tpc, handleValid, numberOfPorts, portProps,
                                 entryMaps, err, hubEx, calls>>
    /\ UNCHANGED <<descVars, orchVars, concVars, apiVars>>

\* ------------------------------------------------------------------------
\* UsbHub::PopulateInfo
\* ------------------------------------------------------------------------
\* UsbHub::PopulateInfo keeps the port count of the node information with a
\* zero-based reading of it
PortCountKeptZeroBased(numbersOfPorts) ==
    IF numbersOfPorts = 0 THEN 0 ELSE numbersOfPorts - 1

\* _numberOfPorts = nodeInfo.numbersOfPorts
PortCountKept(numbersOfPorts) == numbersOfPorts

\* UsbHub::PopulateInfo, first statement: the hub reports its port count
GetUsbHubNodeInformation ==
    /\ op = "PopulateInfo" /\ tpc = "nodeInfo"
    /\ \/ /\ tpc' = "threw"
          /\ err' = Raise("ResultException", "GetUsbHubNodeInformation")
          /\ kernelAsked' = TRUE
          /\ calls' = Append(calls, <<"GetUsbHubNodeInformation", 0>>)
          /\ UNCHANGED <<numberOfPorts>>
       \/ /\ handleValid
          /\ \E n \in 0..MaxPorts :
               /\ numberOfPorts' = PortCountKept(n)
               /\ calls' = Append(calls, <<"GetUsbHubNodeInformation", n>>)
               /\ tpc' = "nodeInfoEx"
               /\ err' = err
               /\ kernelAsked' = TRUE
    /\ UNCHANGED <<op, handleValid, portNumber, portProps, connInfo, entryMaps,
                   answer, hubEx>>
    /\ UNCHANGED <<descVars, orchVars, concVars, apiVars>>

\* GetUsbHubNodeInformationEx: records whether the OS supports the request
GetUsbHubNodeInformationEx ==
    /\ op = "PopulateInfo" /\ tpc = "nodeInfoEx"
    /\ \E isSupported \in BOOLEAN :
         hubEx' = [hubEx EXCEPT !.isHubInfoExSupport = isSupported,
                                !.infoExAnswer = IF isSupported THEN "ok" ELSE "unsupported"]
    /\ tpc' = "capsEx"
    /\ kernelAsked' = TRUE
    /\ UNCHANGED <<op, handleValid, numberOfPorts, portNumber, portProps, connInfo,
                   entryMaps, err, answer, calls>>
    /\ UNCHANGED <<descVars, orchVars, concVars, apiVars>>

\* what GetUsbHubNodeCapabilitiesEx does with a rejected request
CapabilitiesExRaises(supported) == ~supported

GetUsbHubNodeCapabilitiesEx ==
    /\ op = "PopulateInfo" /\ tpc = "capsEx"
    /\ \E supported \in BOOLEAN, isRoot \in BOOLEAN :
         /\ ~supported => ~isRoot
         /\ IF CapabilitiesExRaises(supported)
            THEN /\ tpc' = "threw"
                 /\ err' = Raise("ResultException", "GetUsbHubNodeCapabilitiesEx")
                 /\ hubEx' = [hubEx EXCEPT !.capsAnswer = "unsupported"]
            ELSE /\ tpc' = "ports_enter"
                 /\ err' = err
                 /\ hubEx' = [hubEx EXCEPT !.hubIsRoot = isRoot,
                                !.capsAnswer = IF supported THEN "ok" ELSE "unsupported"]
    /\ kernelAsked' = TRUE
    /\ UNCHANGED <<op, handleValid, numberOfPorts, portNumber, portProps, connInfo,
                   entryMaps, answer, calls>>
    /\ UNCHANGED <<descVars, orchVars, concVars, apiVars>>

\* ------------------------------------------------------------------------
\* DeviceCommunication operations that take a connection index
\* ------------------------------------------------------------------------
IndexedOps ==
    {"GetDriverKeyName", "GetUsbExternalHubName", "GetConfigDescriptor",
     "GetStringDescriptor"}

\* outcomes of GetConfigDescriptor: a validated buffer, nullptr, allocation failure
ConfigOutcomes == {"descriptor", "none", "allocFails"}

\* kernel outcomes of the two-phase name queries: phase 1 rejected, ActualLength
\* too small, buffer not allocated, phase 2 rejected, name delivered
NameQueryOutcomes == {"fail", "short", "noMemory", "fetchFails", "ok"}

\* kernel outcomes of the string-descriptor request
StringOutcomes == {"fail", "malformed", "noMemory", "string"}

\* the call is over: it returned `result`, or left with an exception
IndexedReturn(result) ==
    /\ tpc' = "returned"
    /\ answer' = [NoAnswer EXCEPT !.of = op, !.port = portNumber, !.key = result]
    /\ kernelAsked' = TRUE
    /\ UNCHANGED <<op, handleValid, numberOfPorts, portNumber, portProps, connInfo,
                   entryMaps, err, hubEx, calls>>
    /\ UNCHANGED <<descVars, orchVars, concVars, apiVars>>

IndexedRaise(type, asked) ==
    /\ tpc' = "threw"
    /\ err' = Raise(type, op)
    /\ kernelAsked' = asked
    /\ UNCHANGED <<op, handleValid, numberOfPorts, portNumber, portProps, connInfo,
                   entryMaps, answer, hubEx, calls>>
    /\ UNCHANGED <<descVars, orchVars, concVars, apiVars>>

\* the two-phase name query both name operations run after their checks
NameQuery(outcome) ==
    /\ ~handleValid => outcome = "fail"
    /\ IF outcome = "ok" THEN IndexedReturn("name")
       ELSE IndexedRaise("ResultException", TRUE)

GetDriverKeyName_Call ==
    /\ op = "GetDriverKeyName" /\ tpc = "indexed_enter"
    /\ IF portNumber = 0
       THEN IndexedRaise("InvalidDeviceArgumentException", FALSE)
       ELSE IF ~handleValid
       THEN IndexedRaise("InvalidDeviceHandleException", FALSE)
       ELSE \E outcome \in NameQueryOutcomes : NameQuery(outcome)

\* no check of the index or of the handle precedes the first request
GetUsbExternalHubName_Call ==
    /\ op = "GetUsbExternalHubName" /\ tpc = "indexed_enter"
    /\ \E outcome \in NameQueryOutcomes : NameQuery(outcome)

\* sizeof(USB_DESCRIPTOR_REQUEST)
SizeofDescriptorRequest == 12

\* phase 1 was answered as GetConfigDescriptor needs it
ConfigProbeAcceptedAnySize(success, bytesReturned) == success

ConfigProbeAccepted(success, bytesReturned) ==
    success /\ bytesReturned = SizeofDescriptorRequest + SizeofConfigurationDescriptor

\* the kernel answers a phase with success or failure, a byte count and the
\* wTotalLength the device put into the header; `learned` is phase 1's
\* wTotalLength, `wTotalLength` that of the buffer handed out
GetConfigDescriptor_Call ==
    /\ op = "GetConfigDescriptor" /\ tpc = "indexed_enter"
    /\ IF portNumber = 0
       THEN IndexedRaise("InvalidDeviceArgumentException", FALSE)
       ELSE IF ~handleValid
       THEN IndexedRaise("InvalidDeviceHandleException", FALSE)
       ELSE \E querySuccess \in BOOLEAN, queryShort \in BOOLEAN,
               totalDescriptorLength \in {4, 9, 18},
               allocated \in BOOLEAN,
               fetchSuccess \in BOOLEAN, fetchShort \in BOOLEAN,
               completeTotal \in {4, 9, 18, 27} :
              LET queryBytesReturned ==
                      SizeofDescriptorRequest + SizeofConfigurationDescriptor
                          - (IF queryShort THEN 1 ELSE 0)
                  fullBufferSize == SizeofDescriptorRequest + totalDescriptorLength
                  fetchBytesReturned == fullBufferSize - (IF fetchShort THEN 1 ELSE 0)
                  phase2 == /\ ConfigProbeAccepted(querySuccess, queryBytesReturned)
                            /\ totalDescriptorLength >= SizeofConfigurationDescriptor
                  phase2Issued == phase2 /\ allocated
                  result == IF /\ phase2Issued
                               /\ fetchSuccess /\ fetchBytesReturned = fullBufferSize
                               /\ completeTotal >= SizeofConfigurationDescriptor
                            THEN "descriptor" ELSE "none"
              IN  \* answers of requests that are not issued are fixed
                  /\ ~querySuccess => ~queryShort /\ totalDescriptorLength = 4
                  /\ ~phase2 => allocated
                  /\ ~phase2Issued => ~fetchSuccess /\ ~fetchShort /\ completeTotal = 4
                  /\ ~fetchSuccess => ~fetchShort /\ completeTotal = 4
                  /\ tpc' = IF phase2 /\ ~allocated THEN "threw" ELSE "returned"
                  /\ err' = IF phase2 /\ ~allocated
                            THEN Raise("ResultException", op) ELSE err
                  /\ kernelAsked' = TRUE
                  /\ answer' = [NoAnswer EXCEPT
                        !.of = op, !.port = portNumber,
                        !.probe = IF ~querySuccess THEN "fail"
                                  ELSE IF queryShort THEN "short" ELSE "ok",
                        !.alloc = allocated,
                        !.fetch = IF ~phase2Issued THEN "none"
                                  ELSE IF ~fetchSuccess THEN "fail"
                                  ELSE IF fetchShort THEN "short" ELSE "ok",
                        !.learned = IF querySuccess THEN totalDescriptorLength ELSE 0,
                        !.wTotalLength = IF result = "descriptor" THEN completeTotal ELSE 0,
                        !.key = IF phase2 /\ ~allocated THEN "none" ELSE result]
                  /\ UNCHANGED <<op, handleValid, numberOfPorts, portNumber, portProps,
                                 connInfo, entryMaps, hubEx, calls>>
                  /\ UNCHANGED <<descVars, orchVars, concVars, apiVars>>

GetStringDescriptor_Call ==
    /\ op = "GetStringDescriptor" /\ tpc = "indexed_enter"
    /\ IF portNumber = 0
       THEN IndexedRaise("InvalidDeviceArgumentException", FALSE)
       ELSE IF ~handleValid
       THEN IndexedRaise("InvalidDeviceHandleException", FALSE)
       ELSE \E outcome \in StringOutcomes :
              IF outcome = "noMemory" THEN IndexedRaise("ResultException", TRUE)
              ELSE IndexedReturn(IF outcome = "string" THEN "string" ELSE "none")

IndexedStart(f, hv, connectionIndex) ==
    /\ op = f
    /\ tpc = "indexed_enter"
    /\ handleValid = hv
    /\ numberOfPorts = 0
    /\ portNumber = connectionIndex
    /\ portProps = EmptyMap
    /\ connInfo = EmptyMap
    /\ entryMaps = <<EmptyMap, EmptyMap>>
    /\ kernelAsked = FALSE
    /\ err = NoError
    /\ answer = NoAnswer
    /\ hubEx = DefaultHubEx
    /\ calls = <<>>

TransStart(o, pc, hv, n, pp, ci) ==
    /\ op = o
    /\ tpc = pc
    /\ handleValid = hv
    /\ numberOfPorts = n
    /\ portNumber = 0
    /\ portProps = pp
    /\ connInfo = ci
    /\ entryMaps = <<pp, ci>>
    /\ kernelAsked = FALSE
    /\ err = NoError
    /\ answer = NoAnswer
    /\ hubEx = DefaultHubEx
    /\ calls = <<>>

InitTransport ==
    /\ DescIdle
    /\ OrchIdle
    /\ ConcIdle
    /\ ApiIdle
    /\ \/ \E hv \in BOOLEAN, n \in PortCountArgs, pp \in StalePortProps :
             TransStart("EnumeratePorts", "ports_enter", hv, n, pp, EmptyMap)
       \/ \E hv \in BOOLEAN, n \in PortCountArgs, ci \in StaleConnInfo :
             TransStart("EnumeratePortsConnectionInfo", "conn_enter", hv, n, EmptyMap, ci)
       \/ \E hv \in BOOLEAN :
             TransStart("PopulateInfo", "nodeInfo", hv, 0, EmptyMap, EmptyMap)
       \/ \E f \in IndexedOps, hv \in BOOLEAN, connectionIndex \in 0..MaxPorts :
             IndexedStart(f, hv, connectionIndex)

NextTransport ==
    \/ EnumeratePorts_Enter
    \/ EnumeratePorts_Loop
    \/ EnumeratePortsConnectionInfo_Enter
    \/ EnumeratePortsConnectionInfo_Loop
    \/ GetUsbHubNodeInformation
    \/ GetUsbHubNodeInformationEx
    \/ GetUsbHubNodeCapabilitiesEx
    \/ GetDriverKeyName_Call
    \/ GetUsbExternalHubName_Call
    \/ GetConfigDescriptor_Call
    \/ GetStringDescriptor_Call

SpecTransport == InitTransport /\ [][NextTransport]_vars

\* ------------------------------------------------------------------------
\* Orchestrator (DevicesManager): registry records, port reports
\* ------------------------------------------------------------------------
\* Bounds of the orchestrator model: host controllers, ports of one hub, and
\* the nesting depth of EnumeratePortsFromRootHub at which the thread's stack
\* is used up
NumControllers == 2
MaxHubPorts == 2
StackLimit == 3

GUID_DEVINTERFACE_USB_DEVICE == "GUID_DEVINTERFACE_USB_DEVICE"
NoGuid == "none"

\* BuildVidPidPattern: the "VID_%04X&PID_%04X" search pattern of a device
BuildVidPidPattern(vendorId, productId) == <<"VID", vendorId, "PID", productId>>

\* DevInfoData: a hardware id is the set of VID/PID patterns it contains, a
\* device description is the sequence of its words
DevInfoData(ids, key, guid, path, desc) ==
    [hardwareId |-> ids, driverKeyName |-> key, classGuid |-> guid, devicePath |-> path,
     deviceDesc |-> desc]

\* registries the device enumerator may hand back
Registries ==
    { <<>>,
      << DevInfoData({BuildVidPidPattern(1, 1)}, "kA", GUID_DEVINTERFACE_USB_DEVICE, "",
                     <<"USB", "Input", "Device">>),
         DevInfoData({BuildVidPidPattern(1, 1)}, "", "HIDClass", "", <<"HID", "Mouse">>),
         DevInfoData({BuildVidPidPattern(5, 1)}, "kHub", GUID_DEVINTERFACE_USB_DEVICE, "hubA",
                     <<>>),
         DevInfoData({}, "kB", "Net", "", <<>>) >>,
      << DevInfoData({BuildVidPidPattern(1, 1)}, "kA", GUID_DEVINTERFACE_USB_DEVICE, "",
                     <<"USB", "Mouse">>),
         DevInfoData({BuildVidPidPattern(1, 1)}, "", "HIDClass", "", <<"HID", "Mouse">>) >> }

StringInfos == { NoStrings, StringInfo("", <<"Mouse">>), StringInfo("Acme", <<>>) }

\* what a run finds: a registry and the strings of the attached device model.
\* The device of the four-record registry delivers its product string; the
\* device of the two-record registry delivers any of the string sets.
Environments ==
    { <<r, NoStrings>> : r \in { x \in Registries : Len(x) = 0 } }
    \cup { <<r, StringInfo("", <<"Mouse">>)>> : r \in { x \in Registries : Len(x) = 4 } }
    \cup { <<r, i>> : r \in { x \in Registries : Len(x) = 2 }, i \in StringInfos }

\* the HubConnectionInfo fields the traversal reads
PortReport(status, isHub, vendorId, productId, key) ==
    [connectionStatus |-> status, deviceIsHub |-> isHub, idVendor |-> vendorId,
     idProduct |-> productId, driverKeyName |-> key]

PortReports ==
    { PortReport("NoDeviceConnected", FALSE, 0, 0, ""),
      PortReport("DeviceConnected", FALSE, 1, 1, "kA"),
      PortReport("DeviceConnected", FALSE, 1, 1, ""),
      PortReport("DeviceConnected", FALSE, 2, 2, "kB"),
      PortReport("DeviceConnected", TRUE, 5, 1, "kHub"),
      PortReport("DeviceFailedEnumeration", FALSE, 0, 0, "") }

\* outcomes of constructing and populating a UsbHub
HubOutcomes == {"openFails", "populateFails", "ok"}

RootHubName(c) == IF c = 1 THEN "root1" ELSE IF c = 2 THEN "root2" ELSE "root3"

\* one activation of EnumeratePortsFromRootHub: the hub, the size of its
\* connection-info map, the port the loop is at, what the loop keeps per
\* connected port, the ports FillConfigDescriptor stored description info for
NewFrame(hubName) ==
    [hub |-> hubName, ports |-> 0, port |-> 0, meta |-> <<>>, descInfo |-> <<>>]

\* the registry scan of one port (lines 145-166)
Matches(device, pattern) == pattern \in device.hardwareId

MatchedGuids(all, pattern) ==
    LET hits == SelectSeq(all, LAMBDA d : Matches(d, pattern))
    IN  [i \in 1..Len(hits) |-> hits[i].classGuid]

IsBusLayer(device, pattern, key) ==
    /\ Matches(device, pattern)
    /\ device.driverKeyName # ""
    /\ key = device.driverKeyName

\* std::optional<DevInfoData>: the last record of the scan that qualifies
UsbBusLayerDevice(all, pattern, key) ==
    LET hits == SelectSeq(all, LAMBDA d : IsBusLayer(d, pattern, key))
    IN  IF hits = <<>> THEN <<>> ELSE <<hits[Len(hits)]>>

\* the GUID selection without the preference for a class-specific GUID
BestGuidFirstMatch(guids) ==
    IF guids = <<>> THEN NoGuid ELSE guids[1]

\* the GUID selection (lines 169-185)
BestGuid(guids) ==
    IF guids = <<>> THEN NoGuid
    ELSE IF Len(guids) = 1 THEN guids[1]
    ELSE LET other == SelectSeq(guids, LAMBDA g : g # GUID_DEVINTERFACE_USB_DEVICE)
         IN  IF other = <<>> THEN guids[1] ELSE other[1]

\* std::wstring::find(name) != npos on word sequences
Contains(text, name) ==
    \E i \in 1..(Len(text) - Len(name) + 1) : SubSeq(text, i, i + Len(name) - 1) = name

\* the registry fallback for the product (lines 227-250): the description of
\* the first record that matches the pattern and has one
RegistryDeviceDesc(all, pattern) ==
    LET hits == SelectSeq(all, LAMBDA d : Matches(d, pattern) /\ d.deviceDesc # <<>>)
    IN  IF hits = <<>> THEN <<>> ELSE hits[1].deviceDesc

\* the search for the functional device (lines 252-276): the class GUID of the
\* first record whose description contains the product name
FunctionalGuid(all, productName) ==
    LET hits == SelectSeq(all, LAMBDA d : d.deviceDesc # <<>>
                                          /\ Contains(d.deviceDesc, productName))
    IN  IF productName = <<>> \/ hits = <<>> THEN <<>> ELSE <<hits[1].classGuid>>

\* the DeviceResultantInfo built for a port that has description info
ResultInfo(frame, portNum, all) ==
    LET strings == frame.descInfo[portNum]
        pattern == BuildVidPidPattern(frame.meta[portNum].idVendor,
                                      frame.meta[portNum].idProduct)
        product == IF strings.manufacturer = "" /\ strings.product = <<>>
                   THEN RegistryDeviceDesc(all, pattern)
                   ELSE strings.product
        productName == IF strings.product = <<>> /\ product # <<>>
                       THEN product ELSE strings.product
        functionalGuid == FunctionalGuid(all, productName)
    IN  [hub |-> frame.hub, port |-> portNum,
         product |-> product,
         vendorId |-> frame.meta[portNum].idVendor,
         productId |-> frame.meta[portNum].idProduct,
         setupClassGuid |-> IF functionalGuid # <<>> THEN functionalGuid[1]
                            ELSE frame.meta[portNum].guid,
         isConnected |-> TRUE, isUsbDevice |-> TRUE]

\* the records of one hub, highest port first
ResultInfosDescending(frame, all) ==
    LET order == SelectSeq([i \in 1..frame.ports |-> frame.ports + 1 - i],
                           LAMBDA i : i \in DOMAIN frame.descInfo)
    IN  [i \in 1..Len(order) |-> ResultInfo(frame, order[i], all)]

\* the records of one hub, in ascending port order
ResultInfos(frame, all) ==
    LET order == SelectSeq([i \in 1..frame.ports |-> i],
                           LAMBDA i : i \in DOMAIN frame.descInfo)
    IN  [i \in 1..Len(order) |-> ResultInfo(frame, order[i], all)]

StaleDevice ==
    [hub |-> "earlier", port |-> 1, product |-> <<>>, vendorId |-> 9, productId |-> 9,
     setupClassGuid |-> NoGuid, isConnected |-> TRUE, isUsbDevice |-> TRUE]

Top == stack[Len(stack)]

SetTop(frame) == [stack EXCEPT ![Len(stack)] = frame]

\* ------------------------------------------------------------------------
\* DevicesManager::Impl::EnumerateUsbDevices
\* ------------------------------------------------------------------------
\* an exception nothing catches: every activation is unwound
OrchThrow(type, from) ==
    /\ opc' = "failed"
    /\ oerr' = Raise(type, from)
    /\ stack' = <<>>
    /\ UNCHANGED <<controller, devicesList, allDevices, deviceStrings>>

EnumerateUsbDevices_Begin ==
    /\ opc = "call"
    /\ devicesList' = <<>>
    /\ controller' = 1
    /\ opc' = "controllers"
    /\ UNCHANGED <<stack, oerr, allDevices, deviceStrings>>
    /\ UNCHANGED <<descVars, transVars, concVars, apiVars>>

\* one pass of the controller loop up to the call of EnumeratePortsFromRootHub
EnumerateUsbDevices_Controller ==
    /\ opc = "controllers"
    /\ IF controller > NumControllers
       THEN /\ opc' = "done"
            /\ UNCHANGED <<controller, stack, devicesList, oerr, allDevices, deviceStrings>>
       ELSE \E setup \in {"throws", "ok"} :
              IF setup = "throws"
              THEN OrchThrow("ResultException", "UsbHostController")
              ELSE /\ stack' = <<NewFrame(RootHubName(controller))>>
                   /\ opc' = "populate"
                   /\ UNCHANGED <<controller, devicesList, oerr, allDevices, deviceStrings>>
    /\ UNCHANGED <<descVars, transVars, concVars, apiVars>>

\* UsbHub usbHub(hubName); usbHub.PopulateInfo();
EnumeratePortsFromRootHub_Populate ==
    /\ opc = "populate"
    /\ \E outcome \in HubOutcomes, n \in 1..MaxHubPorts :
         IF outcome = "openFails"
         THEN n = 1 /\ OrchThrow("ResultException", "UsbHub")
         ELSE IF outcome = "populateFails"
         THEN n = 1 /\ OrchThrow("ResultException", "PopulateInfo")
         ELSE /\ stack' = SetTop([Top EXCEPT !.ports = n, !.port = 1])
              /\ opc' = "ports"
              /\ UNCHANGED <<controller, devicesList, oerr, allDevices, deviceStrings>>
    /\ UNCHANGED <<descVars, transVars, concVars, apiVars>>

\* one pass of the port loop, or its exit
EnumeratePortsFromRootHub_Port ==
    /\ opc = "ports"
    /\ IF Top.port > Top.ports
       THEN /\ opc' = "records"
            /\ UNCHANGED <<controller, stack, devicesList, oerr, allDevices, deviceStrings>>
       ELSE \E connectionInfo \in PortReports, pathResolved \in BOOLEAN,
               config \in ConfigOutcomes :
              LET portNum == Top.port
                  pattern == BuildVidPidPattern(connectionInfo.idVendor,
                                                connectionInfo.idProduct)
                  matchedGuids == MatchedGuids(allDevices, pattern)
                  usbBusLayerDevice ==
                      UsbBusLayerDevice(allDevices, pattern, connectionInfo.driverKeyName)
                  skipped == connectionInfo.connectionStatus = "NoDeviceConnected"
                  recurse == ~skipped /\ usbBusLayerDevice # <<>> /\ connectionInfo.deviceIsHub
                  fill == ~skipped /\ usbBusLayerDevice # <<>> /\ ~connectionInfo.deviceIsHub
                  withMeta ==
                      [Top EXCEPT !.port = portNum + 1,
                                  !.meta = TryEmplace(Top.meta, portNum,
                                      [connectionStatus |-> connectionInfo.connectionStatus,
                                       deviceIsHub |-> connectionInfo.deviceIsHub,
                                       idVendor |-> connectionInfo.idVendor,
                                       idProduct |-> connectionInfo.idProduct,
                                       guid |-> BestGuid(matchedGuids)])]
              IN  \* outcomes of calls that are not made are fixed
                  /\ ~recurse => pathResolved
                  /\ ~fill => config = "none"
                  /\ IF skipped
                     THEN /\ stack' = SetTop([Top EXCEPT !.port = portNum + 1])
                          /\ UNCHANGED <<opc, controller, devicesList, oerr, allDevices, deviceStrings>>
                     ELSE IF recurse /\ ~pathResolved
                     THEN OrchThrow("ResultException", "PopulateUsbInfo")
                     ELSE IF recurse /\ Len(stack) >= StackLimit
                     THEN /\ opc' = "stackExhausted"
                          /\ UNCHANGED <<controller, stack, devicesList, oerr, allDevices, deviceStrings>>
                     ELSE IF recurse
                     THEN /\ stack' = Append(SetTop(withMeta),
                                             NewFrame(usbBusLayerDevice[1].devicePath))
                          /\ opc' = "populate"
                          /\ UNCHANGED <<controller, devicesList, oerr, allDevices, deviceStrings>>
                     ELSE IF config = "allocFails"
                     THEN OrchThrow("ResultException", "GetConfigDescriptor")
                     ELSE /\ stack' = SetTop(
                                [withMeta EXCEPT !.descInfo =
                                    IF fill /\ config = "descriptor"
                                    THEN TryEmplace(Top.descInfo, portNum, deviceStrings)
                                    ELSE Top.descInfo])
                          /\ UNCHANGED <<opc, controller, devicesList, oerr, allDevices, deviceStrings>>
    /\ UNCHANGED <<descVars, transVars, concVars, apiVars>>

\* the record-building loop and the return to the caller
EnumeratePortsFromRootHub_Records ==
    /\ opc = "records"
    /\ devicesList' = devicesList \o ResultInfos(Top, allDevices)
    /\ stack' = SubSeq(stack, 1, Len(stack) - 1)
    /\ IF Len(stack) = 1
       THEN opc' = "controllers" /\ controller' = controller + 1
       ELSE opc' = "ports" /\ UNCHANGED controller
    /\ UNCHANGED <<oerr, allDevices, deviceStrings>>
    /\ UNCHANGED <<descVars, transVars, concVars, apiVars>>

InitOrch ==
    /\ DescIdle
    /\ TransIdle
    /\ ConcIdle
    /\ ApiIdle
    /\ opc = "call"
    /\ controller = 0
    /\ stack = <<>>
    /\ devicesList \in {<<>>, <<StaleDevice>>}
    /\ oerr = NoError
    /\ \E env \in Environments :
         allDevices = env[1] /\ deviceStrings = env[2]

NextOrch ==
    \/ EnumerateUsbDevices_Begin
    \/ EnumerateUsbDevices_Controller
    \/ EnumeratePortsFromRootHub_Populate
    \/ EnumeratePortsFromRootHub_Port
    \/ EnumeratePortsFromRootHub_Records

SpecOrch == InitOrch /\ [][NextOrch]_vars

\* ------------------------------------------------------------------------
\* The innermost hubs of a traversal: EnumeratePortsFromRootHub entered for a
\* hub at the end of a chain of one-port hubs that leaves two activations
\* before the thread's stack is used up
\* ------------------------------------------------------------------------
\* registries that order generic and class-specific records of one device in
\* every way, next to the hub's record and a record of another device
HubRegistries ==
    LET generic == DevInfoData({BuildVidPidPattern(1, 1)}, "kA",
                               GUID_DEVINTERFACE_USB_DEVICE, "", <<"USB", "Input", "Device">>)
        hid == DevInfoData({BuildVidPidPattern(1, 1)}, "", "HIDClass", "", <<"HID", "Mouse">>)
        media == DevInfoData({BuildVidPidPattern(1, 1)}, "", "Media", "", <<>>)
        hub == DevInfoData({BuildVidPidPattern(5, 1)}, "kHub",
                           GUID_DEVINTERFACE_USB_DEVICE, "hubA", <<>>)
        other == DevInfoData({BuildVidPidPattern(7, 7)}, "kC", "Bluetooth", "",
                             <<"Bluetooth", "Mouse">>)
    IN  { <<hub, generic>>, <<generic, hid, hub>>, <<hid, generic, hub>>,
          <<hub, generic, hid, media>>, <<media, generic, hid, hub>>,
          <<other, generic, hub>>, <<generic, hub, other, hid>> }

InitHub ==
    /\ DescIdle
    /\ TransIdle
    /\ ConcIdle
    /\ ApiIdle
    /\ opc = "populate"
    /\ controller = NumControllers
    /\ allDevices \in HubRegistries
    /\ deviceStrings \in StringInfos
    /\ stack =
         [i \in 1..(StackLimit - 2) |->
            [hub |-> IF i = 1 THEN RootHubName(NumControllers) ELSE "hubA",
             ports |-> 1, port |-> 2, descInfo |-> <<>>,
             meta |-> <<[connectionStatus |-> "DeviceConnected", deviceIsHub |-> TRUE,
                         idVendor |-> 5, idProduct |-> 1,
                         guid |-> BestGuid(MatchedGuids(allDevices,
                                                        BuildVidPidPattern(5, 1)))]>>]]
         \o <<NewFrame("hubA")>>
    /\ devicesList = <<>>
    /\ oerr = NoError

NextHub ==
    \/ EnumeratePortsFromRootHub_Populate
    \/ EnumeratePortsFromRootHub_Port
    \/ EnumeratePortsFromRootHub_Records
    \/ EnumerateUsbDevices_Controller

SpecHub == InitHub /\ [][NextHub]_vars

\* ------------------------------------------------------------------------
\* Concurrent enumerations: every thread owns a DevicesManager and runs
\* EnumerateUsbDevices on the same machine
\* ------------------------------------------------------------------------
\* Bounds of the concurrency model: threads, ports of the root hub
NumThreads == 2
MaxAttached == 2

\* the non-hub devices a port may hold: device class and vendor of the descriptor
AttachedDevices ==
    { [bDeviceClass |-> 0, idVendor |-> 1], [bDeviceClass |-> 2, idVendor |-> 2] }

\* the device list of a run that has the machine for itself
DevicesListAlone(att) ==
    [i \in 1..Len(att) |->
        [port |-> i, deviceClass |-> att[i].bDeviceClass, vendorId |-> att[i].idVendor]]

\* the call of EnumerateUsbDevices up to the port loop of the root hub
Thread_EnumerateUsbDevices(t) ==
    /\ runs[t].pc = "call"
    /\ runs' = [runs EXCEPT ![t] = [pc |-> "port", port |-> 1, devicesList |-> <<>>]]
    /\ UNCHANGED <<wcout, attached>>
    /\ UNCHANGED <<descVars, transVars, orchVars, apiVars>>

\* one pass of the port loop: FillConfigDescriptor reaches GetAllStringDescriptors,
\* which requests the string whose index is bDeviceClass when that is non-zero
Thread_FillConfigDescriptor(t) ==
    /\ runs[t].pc = "port"
    /\ IF runs[t].port > Len(attached)
       THEN runs' = [runs EXCEPT ![t].pc = "records"]
       ELSE \E answered \in BOOLEAN :
              /\ attached[runs[t].port].bDeviceClass = 0 => ~answered
              /\ runs' = IF answered
                         THEN [runs EXCEPT ![t].pc = "wcout_label"]
                         ELSE [runs EXCEPT ![t].port = @ + 1]
    /\ UNCHANGED <<wcout, attached>>
    /\ UNCHANGED <<descVars, transVars, orchVars, apiVars>>

\* std::wcout << L"\tbDeviceClass: " << bString << std::endl: three insertions
Thread_GetAllStringDescriptors(t) ==
    /\ runs[t].pc \in {"wcout_label", "wcout_string", "wcout_endl"}
    /\ wcout' = Append(wcout, [thread |-> t, text |-> runs[t].pc])
    /\ runs' = IF runs[t].pc = "wcout_label" THEN [runs EXCEPT ![t].pc = "wcout_string"]
               ELSE IF runs[t].pc = "wcout_string" THEN [runs EXCEPT ![t].pc = "wcout_endl"]
               ELSE [runs EXCEPT ![t].pc = "port", ![t].port = @ + 1]
    /\ UNCHANGED attached
    /\ UNCHANGED <<descVars, transVars, orchVars, apiVars>>

\* the record-building loop: AddDeviceInfo on the thread's own _devicesList
Thread_AddDeviceInfo(t) ==
    /\ runs[t].pc = "records"
    /\ runs' = [runs EXCEPT ![t].pc = "done",
                            ![t].devicesList = DevicesListAlone(attached)]
    /\ UNCHANGED <<wcout, attached>>
    /\ UNCHANGED <<descVars, transVars, orchVars, apiVars>>

InitConc ==
    /\ DescIdle
    /\ TransIdle
    /\ OrchIdle
    /\ ApiIdle
    /\ runs = [t \in 1..NumThreads |-> [pc |-> "call", port |-> 0, devicesList |-> <<>>]]
    /\ wcout = <<>>
    /\ attached \in UNION { [1..n -> AttachedDevices] : n \in 0..MaxAttached }

NextConc ==
    \/ \E t \in 1..NumThreads : Thread_EnumerateUsbDevices(t)
    \/ \E t \in 1..NumThreads : Thread_FillConfigDescriptor(t)
    \/ \E t \in 1..NumThreads : Thread_GetAllStringDescriptors(t)
    \/ \E t \in 1..NumThreads : Thread_AddDeviceInfo(t)

SpecConc == InitConc /\ [][NextConc]_vars

\* ------------------------------------------------------------------------
\* C API (WinDevicesAPI): one manager handle and the calls made with it
\* ------------------------------------------------------------------------
WD_SUCCESS == 0
WD_ERROR_INVALID_HANDLE == -1
WD_ERROR_INVALID_INDEX == -5
WD_ERROR_NULL_POINTER == -6
WD_ERROR_UNKNOWN == -99

\* Bound of the C API model: devices an enumeration delivers
MaxDevices == 2

\* the argument checks every function with an output pointer starts with,
\* the pointer looked at first
ArgumentErrorPointerFirst(handle, out) ==
    IF ~out THEN WD_ERROR_NULL_POINTER
    ELSE IF ~handle THEN WD_ERROR_INVALID_HANDLE
    ELSE WD_SUCCESS

\* IsValidHandle(handle) is looked at first, then the output pointer
ArgumentError(handle, out) ==
    IF ~handle THEN WD_ERROR_INVALID_HANDLE
    ELSE IF ~out THEN WD_ERROR_NULL_POINTER
    ELSE WD_SUCCESS

\* a caller holds the null handle and, once one is created, the manager's
WD_CreateDeviceManager ==
    /\ ~wrapper.live
    /\ \E out \in BOOLEAN :
         /\ wrapper' = IF out THEN [live |-> TRUE, devices |-> <<>>, lastError |-> ""]
                       ELSE wrapper
         /\ call' = [fn |-> "WD_CreateDeviceManager", handle |-> FALSE, out |-> out,
                     index |-> 0, count |-> 0,
                     result |-> IF out THEN WD_SUCCESS ELSE WD_ERROR_NULL_POINTER]
    /\ UNCHANGED output
    /\ UNCHANGED <<descVars, transVars, orchVars, concVars>>

\* the enumeration delivers a device list, or an exception ends it after the
\* list was cleared
WD_EnumerateUsbDevices ==
    /\ \E handle \in {FALSE, wrapper.live}, thrown \in BOOLEAN,
          found \in UNION { [1..n -> 1..2] : n \in 0..MaxDevices } :
         /\ (~handle \/ thrown) => found = <<>>
         /\ ~handle => ~thrown
         /\ wrapper' = IF ~handle THEN wrapper
                       ELSE [wrapper EXCEPT !.devices = found,
                                !.lastError = IF thrown THEN "Exception" ELSE @]
         /\ call' = [fn |-> "WD_EnumerateUsbDevices", handle |-> handle, out |-> TRUE,
                     index |-> 0, count |-> Len(wrapper.devices),
                     result |-> IF ~handle THEN WD_ERROR_INVALID_HANDLE
                                ELSE IF thrown THEN WD_ERROR_UNKNOWN ELSE WD_SUCCESS]
    /\ UNCHANGED output
    /\ UNCHANGED <<descVars, transVars, orchVars, concVars>>

WD_GetDeviceCount ==
    /\ \E handle \in {FALSE, wrapper.live}, out \in BOOLEAN :
         LET result == ArgumentError(handle, out)
         IN  /\ call' = [fn |-> "WD_GetDeviceCount", handle |-> handle, out |-> out,
                         index |-> 0, count |-> Len(wrapper.devices), result |-> result]
             /\ output' = IF result = WD_SUCCESS
                          THEN [written |-> TRUE, value |-> <<Len(wrapper.devices)>>]
                          ELSE output
    /\ UNCHANGED wrapper
    /\ UNCHANGED <<descVars, transVars, orchVars, concVars>>

WD_GetDeviceInfo ==
    /\ \E handle \in {FALSE, wrapper.live}, out \in BOOLEAN, index \in -1..(MaxDevices + 1) :
         LET size == Len(wrapper.devices)
             result == IF ArgumentError(handle, out) # WD_SUCCESS
                       THEN ArgumentError(handle, out)
                       ELSE IF index < 0 \/ index >= size THEN WD_ERROR_INVALID_INDEX
                       ELSE WD_SUCCESS
         IN  /\ call' = [fn |-> "WD_GetDeviceInfo", handle |-> handle, out |-> out,
                         index |-> index, count |-> size, result |-> result]
             /\ output' = IF result = WD_SUCCESS
                          THEN [written |-> TRUE, value |-> <<wrapper.devices[index + 1]>>]
                          ELSE output
    /\ UNCHANGED wrapper
    /\ UNCHANGED <<descVars, transVars, orchVars, concVars>>

InitApi ==
    /\ DescIdle
    /\ TransIdle
    /\ OrchIdle
    /\ ConcIdle
    /\ ApiIdle

NextApi ==
    \/ WD_CreateDeviceManager
    \/ WD_EnumerateUsbDevices
    \/ WD_GetDeviceCount
    \/ WD_GetDeviceInfo

SpecApi == InitApi /\ [][NextApi]_vars

\* ------------------------------------------------------------------------
\* Claims about the descriptor walks (checked under SpecDesc)
\* ------------------------------------------------------------------------
\* the walk stands at a sub-descriptor whose header fits and whose declared
\* length is 0
AtZeroLengthDescriptor ==
    /\ cursor + SizeofCommonDescriptor <= wTotalLengthOf(mem)
    /\ cursor < Len(mem)
    /\ mem[cursor + 1] = 0

\* C5: every descriptor-chain walk of the Hub Model rejects a sub-descriptor
\* of declared length 0 and FillConfigDescriptor terminates: a walk never
\* steps over a zero-length descriptor, runs at most one iteration per byte
\* of the buffer, and is never stuck before it is done.
C5_HubWalksRejectZeroLength ==
    fn \in HubFns =>
        /\ iters <= wTotalLengthOf(mem)
        /\ (wpc \in {"search", "chain"} /\ iters > 0) => ~AtZeroLengthDescriptor
        /\ (wpc = "done" \/ ENABLED NextDesc)

\* C6: every Descriptor Parser entry point terminates on every buffer (at
\* most one loop iteration per byte, never stuck), and a walker that stands
\* at a sub-descriptor of declared length 0 ends in its next step with
\* "not found": no interface class, no string flag, no further count.
C6_ParserTerminatesAndStopsAtZeroLength ==
    /\ [](fn \in ParserFns =>
            /\ iters <= wTotalLengthOf(mem)
            /\ (wpc = "done" \/ ENABLED NextDesc))
    /\ [][(fn \in ParserWalkers /\ wpc = "walk" /\ AtZeroLengthDescriptor) =>
            (wpc' = "done" /\ optClass' = NoClass /\ flag' = FALSE /\ count' = count)]_vars

\* C6 witness: GetInterfaceCount has counted one interface and has stopped
\* at a zero-length sub-descriptor.
C6_Witness ==
    /\ fn = "GetInterfaceCount" /\ wpc = "done"
    /\ AtZeroLengthDescriptor /\ count = 1 /\ iters = 1

\* C7: no Descriptor Parser entry point reads a byte at or beyond the
\* declared buffer end (configuration descriptor start + wTotalLength).
C7_ParserReadsInsideBuffer ==
    fn \in ParserFns => maxRead < wTotalLengthOf(mem)

\* ------------------------------------------------------------------------
\* Claims about the transport operations (checked under SpecTransport)
\* ------------------------------------------------------------------------
ConnectionInfoReturned ==
    /\ op \in {"EnumeratePortsConnectionInfo", "PopulateInfo"}
    /\ tpc = "returned"

\* C1: once EnumeratePortsConnectionInfo(N, map) has returned without error,
\* the key set of the connection-info map is exactly 1..N, whatever the map
\* held before and whatever the V2 / extended / legacy queries answered.
C1_ConnectionInfoHasEveryPort ==
    ConnectionInfoReturned => DOMAIN connInfo = 1..numberOfPorts

\* C8: neither extended hub query raises an error when the OS rejects it;
\* PopulateInfo moves on to the port enumeration.
C8_ExtendedHubQueriesAreBestEffort ==
    (op = "PopulateInfo" /\ "unsupported" \in {hubEx.infoExAnswer, hubEx.capsAnswer}) =>
        /\ err.from \notin {"GetUsbHubNodeInformationEx", "GetUsbHubNodeCapabilitiesEx"}
        /\ tpc \in {"capsEx", "ports_enter", "ports_loop", "conn_enter", "conn_loop",
                    "returned", "threw"}
        /\ tpc = "threw" => err.from \in {"EnumeratePorts", "EnumeratePortsConnectionInfo"}

PortJustEnumerated ==
    /\ op = "EnumeratePorts"
    /\ answer.of = "ports"
    /\ answer.port \notin DOMAIN entryMaps[1]

\* C9 (as stated): the port-properties map gains an entry for port p exactly
\* when both the size probe and the full fetch succeeded for p, and no
\* per-port failure fails the call.
C9_EntryIffBothPhasesSucceeded ==
    PortJustEnumerated =>
        /\ answer.port \in DOMAIN portProps <=>
              (answer.probe = "ok" /\ answer.alloc /\ answer.fetch = "ok")
        /\ tpc # "threw"

\* C9 (amended): the map gains an entry for port p exactly when the size probe
\* succeeded for p and the fetch buffer could be allocated; the entry is marked
\* filled and carries p exactly when the full fetch succeeded as well, and is
\* left at its defaults otherwise; entries the map held before are kept; no
\* per-port failure fails the call.
C9_EntryIffProbeSucceeded ==
    /\ PortJustEnumerated =>
         /\ answer.port \in DOMAIN portProps <=> (answer.probe = "ok" /\ answer.alloc)
         /\ answer.port \in DOMAIN portProps =>
              portProps[answer.port] =
                  IF answer.fetch = "ok" THEN FilledHubPortInfo(answer.port)
                  ELSE DefaultHubPortInfo
    /\ op = "EnumeratePorts" /\ tpc \in {"ports_loop", "returned"} =>
         /\ err = NoError
         /\ \A k \in DOMAIN entryMaps[1] : k \in DOMAIN portProps /\ portProps[k] = entryMaps[1][k]

C9_Witness ==
    /\ PortJustEnumerated
    /\ tpc = "returned"
    /\ answer.probe = "ok" /\ answer.alloc /\ answer.fetch = "fail"
    /\ answer.port \in DOMAIN portProps
    /\ ~portProps[answer.port].isFilled

\* C10: EnumeratePorts and EnumeratePortsConnectionInfo called with port count
\* 0 or a port count above 255 fail with the invalid-argument error before any
\* kernel request is issued (and before the map is touched).
C10_BadPortCountFailsBeforeAnyRequest ==
    (op \in EnumerationOps /\ (numberOfPorts = 0 \/ numberOfPorts > 255)) =>
        \/ tpc \in {"ports_enter", "conn_enter"}
        \/ /\ tpc = "threw"
           /\ err.type = "InvalidDeviceArgumentException"
           /\ ~kernelAsked
           /\ <<portProps, connInfo>> = entryMaps

C10_Witness ==
    /\ op = "EnumeratePortsConnectionInfo"
    /\ numberOfPorts = MaxPortsPerHub + 1
    /\ handleValid
    /\ tpc = "threw"
    /\ 9999 \in DOMAIN connInfo

\* ------------------------------------------------------------------------
\* Claims about the orchestrator (checked under SpecOrch)
\* ------------------------------------------------------------------------
HubFailureSources == {"UsbHub", "PopulateInfo", "PopulateUsbInfo", "GetConfigDescriptor"}

\* C2: a failure to open or populate a hub, or to fetch a port's descriptors,
\* never makes EnumerateUsbDevices fail: it is caught and only the subtree is
\* given up.
C2_HubFailureAbortsOnlyItsSubtree ==
    opc = "failed" => oerr.from \notin HubFailureSources

ConnectedDevicePorts(frame) ==
    { p \in DOMAIN frame.meta : /\ frame.meta[p].connectionStatus = "DeviceConnected"
                                /\ ~frame.meta[p].deviceIsHub }

\* C3: when the traversal of a populated hub builds its records, every port
\* the hub reported as a connected non-hub device gets a record in the device
\* list, whichever of its fields could not be resolved.
C3_EveryConnectedDeviceHasARecord ==
    [][opc = "records" =>
          \A p \in ConnectedDevicePorts(Top) :
              \E i \in 1..Len(devicesList') :
                  devicesList'[i].hub = Top.hub /\ devicesList'[i].port = p]_vars

\* C4: the recursive hub traversal is guarded, so it never nests until the
\* stack is used up, not even when a hub's port resolves to the device path of
\* a hub that is already being traversed.
C4_TraversalIsGuarded ==
    /\ opc # "stackExhausted"
    /\ \A i, j \in 1..Len(stack) : stack[i].hub = stack[j].hub => i = j

\* ------------------------------------------------------------------------
\* Claims about the connection-index operations (checked under SpecTransport)
\* ------------------------------------------------------------------------
\* C11: every operation that takes a connection index fails with the
\* invalid-argument error when the index is 0, and with the invalid-handle
\* error when the handle is unset, before any kernel request is issued.
C11_IndexAndHandleCheckedFirst ==
    (op \in IndexedOps /\ tpc # "indexed_enter") =>
        /\ portNumber = 0 =>
              /\ tpc = "threw"
              /\ err.type = "InvalidDeviceArgumentException"
              /\ ~kernelAsked
        /\ (portNumber # 0 /\ ~handleValid) =>
              /\ tpc = "threw"
              /\ err.type = "InvalidDeviceHandleException"
              /\ ~kernelAsked

\* ------------------------------------------------------------------------
\* Claims about the connection-info entries (checked under SpecTransport)
\* ------------------------------------------------------------------------
ConnectionInfoBeingBuilt ==
    /\ op \in {"EnumeratePortsConnectionInfo", "PopulateInfo"}
    /\ tpc \in {"conn_loop", "returned"}

\* C12: every entry of the connection-info map stores a connection index equal
\* to its key, and the key lies in 1..N, whether the extended or the legacy
\* query populated the entry.
C12_ConnectionIndexIsKey ==
    ConnectionInfoBeingBuilt =>
        \A k \in DOMAIN connInfo :
            /\ connInfo[k].connectionIndex = k
            /\ k \in 1..numberOfPorts

C12_Witness ==
    /\ op = "EnumeratePortsConnectionInfo" /\ tpc = "returned"
    /\ 9999 \in DOMAIN entryMaps[2]
    /\ DOMAIN connInfo = {1, 2}
    /\ connInfo[1].deviceIsHub
    /\ answer.port = 2 /\ ~answer.ex /\ answer.legacy

\* C13: every entry whose connection status is "no device" has an empty pipe
\* list and an all-zero device descriptor, whatever the kernel returned.
C13_NoDeviceEntriesAreBlank ==
    ConnectionInfoBeingBuilt =>
        \A k \in DOMAIN connInfo :
            connInfo[k].connectionStatus = "NoDeviceConnected" =>
                /\ connInfo[k].pipeList = 0
                /\ connInfo[k].deviceDescriptor = 0

\* C19: the driver key is requested only for a port whose connection query
\* (extended or legacy) succeeded and reported a device; when the request fails
\* the port's entry is stored all the same with an empty driver key, the call
\* does not fail for it and the loop goes on to the remaining ports.
C19_DriverKeyIsBestEffort ==
    (ConnectionInfoBeingBuilt /\ answer.of = "conn") =>
        /\ answer.keyAsked <=>
              /\ answer.ex \/ answer.legacy
              /\ answer.port \in DOMAIN connInfo
              /\ connInfo[answer.port].connectionStatus # "NoDeviceConnected"
        /\ (answer.keyAsked /\ answer.key # "ok") =>
              /\ answer.port \in DOMAIN connInfo
              /\ connInfo[answer.port].driverKeyName = ""
              /\ err = NoError
              /\ portNumber = answer.port + 1

C19_Witness ==
    /\ op = "EnumeratePortsConnectionInfo" /\ tpc = "returned"
    /\ DOMAIN connInfo = {1, 2}
    /\ connInfo[1].connectionStatus = "DeviceFailedEnumeration"
    /\ connInfo[1].driverKeyName = ""
    /\ answer.port = 2 /\ answer.keyAsked /\ answer.key = "short"
    /\ connInfo[2].driverKeyName = ""

\* the order in which PopulateInfo calls the port-count operations
PopulateInfoCallOrder ==
    <<"GetUsbHubNodeInformation", "EnumeratePorts", "EnumeratePortsConnectionInfo">>

\* C20: PopulateInfo obtains the port count N from GetUsbHubNodeInformation
\* first, then calls EnumeratePorts and then EnumeratePortsConnectionInfo, each
\* once and each with that N; when it returns all three calls were made and the
\* hub holds the connection map the enumeration built for ports 1..N.
C20_PopulateInfoPassesReportedPortCount ==
    op = "PopulateInfo" =>
        /\ Len(calls) <= Len(PopulateInfoCallOrder)
        /\ \A i \in 1..Len(calls) :
              /\ calls[i][1] = PopulateInfoCallOrder[i]
              /\ calls[i][2] = calls[1][2]
        /\ tpc \in {"ports_enter", "ports_loop", "conn_enter", "conn_loop", "returned"}
              => numberOfPorts = calls[1][2]
        /\ tpc = "returned" =>
              /\ Len(calls) = Len(PopulateInfoCallOrder)
              /\ DOMAIN connInfo \subseteq 1..calls[1][2]

C20_Witness ==
    /\ op = "PopulateInfo" /\ tpc = "returned"
    /\ calls = <<<<"GetUsbHubNodeInformation", 2>>, <<"EnumeratePorts", 2>>,
                 <<"EnumeratePortsConnectionInfo", 2>>>>
    /\ DOMAIN connInfo = {1, 2}
    /\ connInfo[1].connectionStatus = "DeviceConnected"
    /\ connInfo[2].connectionStatus = "NoDeviceConnected"

\* C14: no field of a configuration descriptor beyond bLength and
\* bDescriptorType (offsets 0 and 1) is read by the hub model unless the
\* descriptor passes the validation of its bLength and bDescriptorType:
\* wTotalLength is read and sub-descriptors are walked only of a validated one.
C14_FieldsReadOnlyAfterValidation ==
    (fn = "FillConfigDescriptor" /\ maxRead > 1) => ValidateConfigurationDescriptor(mem)

\* C15: EnumeratePortsFromRootHub scans the registry, recurses and fetches
\* descriptors only for ports whose connection status is "connected": the
\* per-port results of the scan (meta) and the fetched description info
\* (descInfo) of every activation belong to connected ports only.
C15_OnlyConnectedPortsAreProcessed ==
    \A i \in 1..Len(stack) :
        /\ \A p \in DOMAIN stack[i].meta :
              stack[i].meta[p].connectionStatus = "DeviceConnected"
        /\ DOMAIN stack[i].descInfo \subseteq DOMAIN stack[i].meta

\* C16: when the registry holds a bus-layer record of a device on a root-hub
\* port (its hardware id matches the port, it has a driver key and the generic
\* USB-device class) and a functional record whose description contains the
\* device's product string, the device's final record carries the functional
\* record's class GUID, wherever the two records stand in the registry and
\* whatever the bus-layer record's description says.
C16_FunctionalGuidWins ==
    \A i \in 1..Len(devicesList), b \in 1..Len(allDevices), f \in 1..Len(allDevices) :
        LET r == devicesList[i]
            busLayer == allDevices[b]
            functional == allDevices[f]
        IN  (/\ r.hub \in {RootHubName(c) : c \in 1..NumControllers}
             /\ IsBusLayer(busLayer, BuildVidPidPattern(r.vendorId, r.productId),
                           busLayer.driverKeyName)
             /\ busLayer.classGuid = GUID_DEVINTERFACE_USB_DEVICE
             /\ functional.classGuid # GUID_DEVINTERFACE_USB_DEVICE
             /\ deviceStrings.product # <<>>
             /\ Contains(functional.deviceDesc, deviceStrings.product))
            => r.setupClassGuid = functional.classGuid

\* C17: two EnumerateUsbDevices runs on distinct DevicesManager instances
\* touch no state in common: no process-wide object receives writes of more
\* than one thread, and every finished run has the device list it has alone.
C17_ConcurrentRunsShareNoState ==
    /\ \A i \in 1..Len(wcout), j \in 1..Len(wcout) : wcout[i].thread = wcout[j].thread
    /\ \A t \in DOMAIN runs :
          runs[t].pc = "done" => runs[t].devicesList = DevicesListAlone(attached)

\* C18: the C API tells argument errors apart in a fixed precedence.  A null
\* manager handle yields the invalid-handle code whatever the output pointer
\* is; a valid handle with a null output pointer yields the null-pointer code;
\* with both valid WD_GetDeviceInfo yields the invalid-index code exactly when
\* index < 0 or index >= the device count, and success for 0..count-1.
C18_ArgumentErrorPrecedence ==
    /\ Cardinality({WD_SUCCESS, WD_ERROR_INVALID_HANDLE, WD_ERROR_NULL_POINTER,
                    WD_ERROR_INVALID_INDEX}) = 4
    /\ call.fn \in {"WD_GetDeviceCount", "WD_GetDeviceInfo"} =>
          /\ ~call.handle => call.result = WD_ERROR_INVALID_HANDLE
          /\ (call.handle /\ ~call.out) => call.result = WD_ERROR_NULL_POINTER
          /\ (call.handle /\ call.out /\ call.fn = "WD_GetDeviceInfo") =>
                /\ call.result = WD_ERROR_INVALID_INDEX
                      <=> (call.index < 0 \/ call.index >= call.count)
                /\ call.index \in 0..(call.count - 1) => call.result = WD_SUCCESS
                /\ call.count = Len(wrapper.devices)

C18_Witness ==
    /\ call.fn = "WD_GetDeviceInfo" /\ call.handle /\ call.out
    /\ call.count = MaxDevices /\ call.index = call.count - 1
    /\ call.result = WD_SUCCESS
    /\ output = [written |-> TRUE, value |-> <<wrapper.devices[call.count]>>]

\* C21: the class GUID the matching step keeps for a processed port is that of
\* the first registry record, in registry order, whose hardware id contains
\* the port's VID/PID pattern and whose GUID is not the generic USB-device
\* GUID, when there is one; otherwise that of the first matching record; with
\* no matching record none is kept.
C21_MatchingStepPrefersSpecificGuid ==
    \A i \in 1..Len(stack) : \A p \in DOMAIN stack[i].meta :
        LET pattern == BuildVidPidPattern(stack[i].meta[p].idVendor,
                                          stack[i].meta[p].idProduct)
            matching == { k \in 1..Len(allDevices) : Matches(allDevices[k], pattern) }
            specific == { k \in matching :
                            allDevices[k].classGuid # GUID_DEVINTERFACE_USB_DEVICE }
            first(set) == CHOOSE k \in set : \A other \in set : k <= other
        IN  stack[i].meta[p].guid =
                IF matching = {} THEN NoGuid
                ELSE IF specific # {} THEN allDevices[first(specific)].classGuid
                ELSE allDevices[first(matching)].classGuid

C21_Witness ==
    /\ opc = "ports" /\ Len(allDevices) >= 3
    /\ allDevices[1].classGuid = GUID_DEVINTERFACE_USB_DEVICE
    /\ 1 \in DOMAIN Top.meta
    /\ Matches(allDevices[1], BuildVidPidPattern(Top.meta[1].idVendor, Top.meta[1].idProduct))
    /\ Top.meta[1].guid = "HIDClass"

C23_HubClassEqualsParserClass ==
    (fn = "FillConfigDescriptor" /\ wpc = "done" /\ ConfigDescriptorAvailable(mem))
        => \E junk \in OobBytes : optClass = ExtractInterfaceClass(mem, junk)

\* C24: GetAllStringDescriptors uses one language id for all string fetches:
\* 0x0409 when the language list is unavailable, otherwise the first id of
\* the returned list; never an id that is neither 0x0409 nor in the list.
C24_OneLanguageIdFromTheList ==
    (fn = "GetAllStringDescriptors" /\ Len(requests) >= 2) =>
        \A k \in 2..Len(requests) :
            IF ~requests[1].available
            THEN requests[k].languageId = DefaultLanguageID
            ELSE /\ languageIDs # <<>>
                 /\ requests[k].languageId = languageIDs[1]

\* C25: GetAllStringDescriptors requests only string index 0 and the
\* non-zero iManufacturer, iProduct and iSerialNumber indices; an
\* unavailable string leaves its field empty and the others are still
\* fetched and stored.
C25_OnlyTheThreeStringIndices ==
    (fn = "GetAllStringDescriptors") =>
        \A k \in 1..Len(requests) :
            requests[k].index \in ({0, dev.iManufacturer, dev.iProduct, dev.iSerialNumber})

C27_DescriptorOnlyAfterBothPhases ==
    (op = "GetConfigDescriptor" /\ tpc \in {"returned", "threw"}
        /\ portNumber # 0 /\ handleValid) =>
        LET bothPhases == /\ answer.probe = "ok"
                          /\ answer.learned >= SizeofConfigurationDescriptor
                          /\ answer.fetch = "ok"
        IN  /\ answer.key = "descriptor" => bothPhases /\ tpc = "returned"
            /\ tpc = "threw" =>
                  /\ err.type = "ResultException" /\ ~answer.alloc
                  /\ answer.probe = "ok"
                  /\ answer.learned >= SizeofConfigurationDescriptor
            /\ (~bothPhases /\ answer.alloc) =>
                  tpc = "returned" /\ answer.key = "none" /\ err = NoError
            /\ answer.probe # "ok" => answer.fetch = "none"

C27_Witness ==
    /\ op = "GetConfigDescriptor" /\ tpc = "returned" /\ handleValid
    /\ answer.probe = "ok" /\ answer.learned = 18 /\ answer.fetch = "short"
    /\ answer.key = "none"

\* C28: the wTotalLength inside a configuration descriptor GetConfigDescriptor
\* hands out is no larger than the number of descriptor bytes allocated and
\* fetched (the total length learned in phase 1).
C28_TotalLengthWithinAllocation ==
    (op = "GetConfigDescriptor" /\ tpc = "returned" /\ answer.key = "descriptor")
        => answer.wTotalLength <= answer.learned

\* C29: the setup-class identifier of a final USB device record comes from a
\* registry record whose hardware id contains that port's VID/PID pattern,
\* never from a record of a different device.
C29_ClassGuidFromOwnRegistryRecord ==
    \A k \in 1..Len(devicesList) :
        LET pattern == BuildVidPidPattern(devicesList[k].vendorId,
                                          devicesList[k].productId)
        IN  devicesList[k].setupClassGuid # NoGuid =>
              \E i \in 1..Len(allDevices) :
                  /\ Matches(allDevices[i], pattern)
                  /\ allDevices[i].classGuid = devicesList[k].setupClassGuid

\* C30: the final list grows only by the records of one hub at a time: those
\* of the innermost activation, after its port loop (and with it every child
\* hub's activation) is over, in ascending port number.  The activations of
\* its parents are still inside their port loops, so every record behind a
\* child hub precedes the records of the parent's own devices.
C30_ChildRecordsBeforeParentsInPortOrder ==
    [][devicesList' # devicesList =>
        /\ stack # <<>> /\ opc = "records" /\ Top.port > Top.ports
        /\ Len(devicesList') > Len(devicesList)
        /\ SubSeq(devicesList', 1, Len(devicesList)) = devicesList
        /\ LET new == SubSeq(devicesList', Len(devicesList) + 1, Len(devicesList'))
           IN  \A i \in 1..Len(new) :
                   /\ new[i].hub = Top.hub
                   /\ new[i].port \in DOMAIN Top.descInfo
                   /\ \A j \in (i + 1)..Len(new) : new[i].port < new[j].port
        /\ stack' = SubSeq(stack, 1, Len(stack) - 1)
        /\ \A i \in 1..(Len(stack) - 1) :
               /\ stack[i].port <= stack[i].ports + 1
               /\ (stack[i].port - 1) \in DOMAIN stack[i].meta
               /\ stack[i].meta[stack[i].port - 1].deviceIsHub]_vars

C30_Witness ==
    /\ opc = "ports" /\ Len(stack) = StackLimit - 2
    /\ Len(devicesList) = 3
    /\ devicesList[1].port = 1 /\ devicesList[2].port = 2 /\ devicesList[3].port = 2
====
